---- MODULE Spec2Model ----
(***************************************************************************)
(* Memory-management core of the Chronix kernel: user VM spaces            *)
(* (os/src/mm/vm/riscv64.rs) over the page table of                        *)
(* os/hal/src/component/pagetable/loongarch64.rs, the frame allocator and  *)
(* the per-inode page cache.                                               *)
(*                                                                         *)
(* Addresses are byte addresses; the user layout is a scaled copy of the   *)
(* layout constants (same order and adjacency of the regions, fewer        *)
(* pages), so that the state space is finite.                              *)
(***************************************************************************)
EXTENDS Integers, Sequences, FiniteSets, TLC

\* ------------------------------------------------------------ constants
PAGE_SIZE == 4096
HALF_PAGE == PAGE_SIZE \div 2
USER_FILE_PER_PAGES == 8
PG_LEVEL == 3

\* Scaled layout, in pages.  Order as in constant/riscv64.rs: share arena,
\* file arena, stack, trap context, each ending where the next begins.
DataPages == 3
SharePages == 1
FilePages == 2
StackPages == 1
TrapPages == 1

\* ------------------------------------------------------------ bounds
HeapRoom == 2
MaxSpaces == 3
NumFrames == 16
MaxOps == 3
FileHalves == 3
NumHarts == 2
FaFrames == 4
FaMaxCnt == 2
NumCaches == 2
MaxCap == 3
SlabFrames == 3
SlabOps == 10
InodePages == 3
FileOps == 3
PrivOps == 3
ForkOps == 3
ElfSegs == 2
KvmPages == 4
KvmMaxFrames == 2
KvmOps == 3
IterVpns == 8
SplitVpns == 3
CreadLen == 4
CreadOps == 2
PtEntries == 2
PtPool == 4
PtData == 2
PtOps == 2
SmpOps == 6

\* Number of PPN bits that lie inside PTEFlags::MASK (bits 10..12 of an
\* entry whose PPN field starts at bit 10).
MaskPpnBits == 3

\* First managed frame: physical RAM handed to the frame allocator lies
\* above the PPNs that fit in MaskPpnBits bits.
FrameBase == 2 ^ MaskPpnBits

ELF_DATA_END == DataPages * PAGE_SIZE
USER_SHARE_BEG == ELF_DATA_END + HeapRoom * PAGE_SIZE
USER_SHARE_END == USER_SHARE_BEG + SharePages * PAGE_SIZE
USER_FILE_BEG == USER_SHARE_END
USER_FILE_END == USER_FILE_BEG + FilePages * PAGE_SIZE
USER_STACK_BOTTOM == USER_FILE_END
USER_STACK_TOP == USER_STACK_BOTTOM + StackPages * PAGE_SIZE
USER_TRAP_CONTEXT_BOTTOM == USER_STACK_TOP
USER_TRAP_CONTEXT_TOP == USER_TRAP_CONTEXT_BOTTOM + TrapPages * PAGE_SIZE

NumVpn == USER_TRAP_CONTEXT_TOP \div PAGE_SIZE
VPNS == 0 .. (NumVpn - 1)
PPNS == 0 .. (FrameBase + NumFrames - 1)
Managed == FrameBase .. (FrameBase + NumFrames - 1)
SpaceIds == 1 .. MaxSpaces
FileSize == FileHalves * HALF_PAGE

None == 0 - 1

\* ------------------------------------------------------------ addresses
VaFloor(va) == va \div PAGE_SIZE
VaCeil(va) == (va + PAGE_SIZE - 1) \div PAGE_SIZE
StartAddr(vpn) == vpn * PAGE_SIZE
Min(S) == CHOOSE x \in S : \A y \in S : x <= y
RangeEmpty(r) == r[1] >= r[2]
RangeHas(r, x) == r[1] <= x /\ x < r[2]
Overlap(r, q) == r[1] < q[2] /\ q[1] < r[2]

\* Page contents: two half pages, each a byte-pattern token
\* (0 = zero bytes, 1 = bytes never initialised, 2 = ELF segment bytes,
\* 3 = bytes a free frame kept from an earlier owner,
\* 10.. = file bytes, 20.. = bytes stored by user code).
ZeroPage == <<0, 0>>
BootPage == <<1, 1>>
ElfPage == <<2, 2>>
StalePage == <<3, 3>>
FilePage(off) == <<10 + 2 * (off \div PAGE_SIZE), 11 + 2 * (off \div PAGE_SIZE)>>

\* ------------------------------------------------------------ page table
\* PTEFlags::from(MapPerm)
PTEFlagsFrom(perm) ==
    (IF "U" \in perm THEN {"PLV_L", "PLV_H"} ELSE {})
    \cup (IF "R" \notin perm THEN {"NR"} ELSE {})
    \cup (IF "W" \in perm THEN {"W"} ELSE {})
    \cup (IF "X" \notin perm THEN {"NX"} ELSE {})
    \cup (IF "C" \in perm THEN {"C"} ELSE {})

\* PageTableEntry::new
PageTableEntryNew(ppn, perm, valid) ==
    [ppn |-> ppn, flags |-> PTEFlagsFrom(perm) \cup (IF valid THEN {"V"} ELSE {})]

\* a zeroed entry (bits = 0)
PteEmpty == [ppn |-> 0, flags |-> {}]

PteIsValid(pte) == "V" \in pte.flags

\* PageTableEntry::map_perm
PteMapPerm(pte) ==
    (IF {"PLV_L", "PLV_H"} \subseteq pte.flags THEN {"U"} ELSE {})
    \cup (IF "NR" \notin pte.flags THEN {"R"} ELSE {})
    \cup (IF "W" \in pte.flags THEN {"W"} ELSE {})
    \cup (IF "NX" \notin pte.flags THEN {"X"} ELSE {})
    \cup (IF "C" \in pte.flags THEN {"C"} ELSE {})

\* PageTableEntry::set_flags: bits = (bits & MASK) | flags.  The old flag
\* bits and the PPN bits inside MASK are kept, the other PPN bits are
\* cleared, the new flags are or-ed in.
PteSetFlags(pte, flags) ==
    [ppn |-> pte.ppn % (2 ^ MaskPpnBits), flags |-> pte.flags \cup flags]

\* PageTable::find_pte at the leaf level: Some (a singleton) iff valid
FindPte(pt, vpn) == IF PteIsValid(pt[vpn]) THEN {pt[vpn]} ELSE {}

\* PageTable::translate_vpn
TranslateVpn(pt, vpn) == IF PteIsValid(pt[vpn]) THEN pt[vpn].ppn ELSE None

\* PageTable::map (Small level): the slot is overwritten
PtMap(pt, vpn, ppn, perm) == [pt EXCEPT ![vpn] = PageTableEntryNew(ppn, perm, TRUE)]

\* PageTable::unmap: the caller panics first when FindPte is None
PtUnmap(pt, vpn) == [pt EXCEPT ![vpn] = PageTableEntryNew(0, {}, FALSE)]

\* ------------------------------------------------------------ state
VARIABLES
    spaces,     \* SpaceIds -> UserVmSpace (page_table, areas, heap_bottom_va)
    cache,      \* page cache of the one file: page offset -> PPN of its frame, or None
    mem,        \* PPNS -> contents of the physical page
    panicked,   \* the kernel has panicked
    last,       \* the last call: operation, arguments, result
    ops,        \* number of calls made so far
    cow_done,   \* <<space, VPN>> of the copy-on-write faults resolved so far
    falloc,     \* FRAME_ALLOCATOR, the harts inside alloc/dealloc, the ranges out
    slab,       \* one SlabCache of SLAB_ALLOCATOR and the harts inside its calls
    inode,      \* one Ext4Inode: its page cache and the tasks inside read_page_at
    ptable,     \* one multi-level PageTable, the frames it walks, its last call
    lavm,       \* the LoongArch user VM spaces, their frames, the last call
    loader,     \* one ELF given to from_elf / from_elf_file: its PT_LOAD headers, the result
    kvm,        \* KVM_SPACE: the kernel areas, the kernel page table, the last call
    iter,       \* one VpnPageRangeIter: the range left, the range given, the items yielded
    split,      \* one UserVmArea given to split_off: the area, p, the two halves
    cread       \* one Ext4Inode read through cache_read_at: its page cache with what each page holds, the last call

vars == <<spaces, cache, mem, panicked, last, ops, cow_done, falloc, slab, inode, ptable, lavm, loader, kvm, iter, split, cread>>
vm_vars == <<spaces, cache, mem, panicked, last, ops, cow_done>>
aux_vars == <<ptable, lavm, loader, kvm, iter, split, cread>>

\* ------------------------------------------------------------ harts
Harts == 1 .. NumHarts

\* ------------------------------------------------------------ frame allocator
\* PhysAddr::floor / PhysAddr::ceil
PaFloor(pa) == pa \div PAGE_SIZE
PaCeil(pa) == (pa + PAGE_SIZE - 1) \div PAGE_SIZE

HartIdle == [pc |-> "idle", start |-> 0, cnt |-> 0]

\* BitMapFrameAllocator::new: range 0..1, no bit set.  `free` is the set of
\* set bits of `inner` and `inserted` the bits init has put there; `out`
\* lists the ranges alloc has returned that have not been given to dealloc;
\* `ret` is the last return of alloc.
BitMapFrameAllocatorNew ==
    [range |-> <<0, 1>>, free |-> {}, hart |-> [h \in Harts |-> HartIdle],
     out |-> <<>>, ret |-> [h |-> 0, cnt |-> 0, r |-> <<>>], inserted |-> {}]

\* BitMapFrameAllocator::init
BitMapFrameAllocatorInit(f, start_pa, end_pa) ==
    [f EXCEPT !.range = <<PaCeil(start_pa), PaFloor(end_pa)>>,
              !.free = 0 .. (PaFloor(end_pa) - PaFloor(start_pa) - 1),
              !.inserted = 0 .. (PaFloor(end_pa) - PaFloor(start_pa) - 1)]

\* BitAlloc::alloc_contiguous(None, cnt, 0): the lowest index at which cnt
\* consecutive bits are set, or None
FitsAt(free, i, cnt) == \A j \in i .. (i + cnt - 1) : j \in free
AllocContiguous(free, cnt) ==
    IF \E i \in free : FitsAt(free, i, cnt)
    THEN CHOOSE i \in free : FitsAt(free, i, cnt) /\ \A k \in free : k < i => ~FitsAt(free, k, cnt)
    ELSE None

\* BitAlloc::dealloc_contiguous(start, cnt): sets the bits again
DeallocContiguous(free, start, cnt) == free \cup (start .. (start + cnt - 1))

\* an alloc that leaves the bits it found set
AllocTakeKeeping(free, i, cnt) == free
\* FrameAllocator::alloc, first lock: the bits are taken
AllocTake(free, i, cnt) == free \ (i .. (i + cnt - 1))

\* FrameAllocator::alloc, second lock: start += range.start
AllocStart(f, idx) == idx + f.range[1]

\* a dealloc that takes the PPN for the bit index
DeallocStartRaw(f, ppn) == ppn
\* FrameAllocator::dealloc, first lock: start = range_ppn.start - range.start
DeallocStart(f, ppn) == ppn - f.range[1]

\* ------------------------------------------------------------ slab
\* size_of::<SlabBlock>(): next, belong, size
SlabBlockBytes == 24
Null == 0
Caches == 1 .. NumCaches
\* The size class of cache c; the classes are chosen so that a block holds
\* MaxCap, MaxCap - 1, ... nodes.
SlabSize(c) == (PAGE_SIZE - SlabBlockBytes) \div (MaxCap - c + 1)
\* SlabCache::block_cap
BlockCap(S) == (PAGE_SIZE - SlabBlockBytes) \div S
\* the address of the cache (self as *mut SlabCache<S> as usize)
CacheAddr(c) == 16 * c
\* A block is named by the PPN of its frame; nodes by their address.
SlabPpns == FrameBase .. (FrameBase + SlabFrames - 1)
NodeAddr(p, S, i) == p * PAGE_SIZE + SlabBlockBytes + i * S
NodesOf(p, S) == {NodeAddr(p, S, i) : i \in 0 .. (BlockCap(S) - 1)}
NodeAddrs == UNION {NodesOf(p, SlabSize(c)) : p \in SlabPpns, c \in Caches}
\* KernAddr::floor of a payload: the block it lies in
BlockOf(a) == a \div PAGE_SIZE

SlabIdle == [pc |-> "idle", c |-> 0, a |-> Null]
SlabRet(op, c, a, res) == [op |-> op, c |-> c, a |-> a, res |-> res]
\* SlabCache::new for every cache of SlabAllocator::new.  `block` and `node`
\* are the memory of the frames (headers, next pointers of the nodes);
\* `pool` the frames the frame allocator has free; `held` counts the
\* callers holding each node; `allocs` counts per cache the allocs made
\* since construction as long as no dealloc or shrink was made on it.
SlabAllocatorNew ==
    [cache |-> [c \in Caches |-> [head |-> Null, freelist |-> Null]],
     block |-> [p \in SlabPpns |-> [next |-> Null, belong |-> 0, size |-> 0]],
     node |-> [a \in NodeAddrs |-> Null],
     pool |-> SlabPpns,
     held |-> [a \in NodeAddrs |-> 0],
     allocs |-> [c \in Caches |-> 0],
     hart |-> [h \in Harts |-> SlabIdle],
     ret |-> SlabRet("new", 0, Null, "Ok"),
     panicked |-> FALSE,
     steps |-> 0]

\* a chain that ends one node early
SlabChainShort(node, p, S, end) ==
    [a \in NodeAddrs |->
        IF a \in NodesOf(p, S)
        THEN (IF a = NodeAddr(p, S, end - 1) THEN Null ELSE a + S)
        ELSE node[a]]
\* SlabCache::alloc, freelist null: a new frame becomes the head block and
\* its nodes are chained into the freelist.  `end` is the index of the
\* node whose next is null.
SlabChain(node, p, S, end) ==
    [a \in NodeAddrs |->
        IF a \in NodesOf(p, S)
        THEN (IF a = NodeAddr(p, S, end) THEN Null ELSE a + S)
        ELSE node[a]]
SlabGrowWith(sl, c, p) ==
    [sl EXCEPT !.pool = @ \ {p},
               !.block[p] = [next |-> sl.cache[c].head, belong |-> CacheAddr(c), size |-> 0],
               !.cache[c] = [head |-> p, freelist |-> NodeAddr(p, SlabSize(c), 0)],
               !.node = SlabChain(@, p, SlabSize(c), BlockCap(SlabSize(c)) - 1)]
\* frame_alloc() and frame_dealloc(ppn) on the frames that are free: one
\* frame, first fit, or None; the frame is free again
SlabFrameAlloc(pool) == AllocContiguous(pool, 1)
SlabFrameDealloc(pool, p) == pool \cup {p}
\* frame_alloc()?
SlabGrow(sl, c) ==
    IF SlabFrameAlloc(sl.pool) = None
    THEN [sl EXCEPT !.ret = SlabRet("alloc", c, Null, "None")]
    ELSE SlabGrowWith(sl, c, SlabFrameAlloc(sl.pool))
\* SlabCache::alloc, freelist not null: the payload read from freelist is
\* unlinked, counted in its block, zeroed and returned
SlabPop(sl, c, payload) ==
    [sl EXCEPT !.cache[c].freelist = sl.node[payload],
               !.block[BlockOf(payload)].size = @ + 1,
               !.node[payload] = Null,
               !.held[payload] = @ + 1,
               !.allocs[c] = IF @ = None THEN None ELSE @ + 1,
               !.ret = SlabRet("alloc", c, payload, "Some")]
SlabPopHead(sl, c) == SlabPop(sl, c, sl.cache[c].freelist)
SlabGrown(sl, c) == IF sl.cache[c].freelist = Null THEN sl ELSE SlabPopHead(sl, c)
SlabAllocOf(sl, c) ==
    IF sl.cache[c].freelist = Null THEN SlabGrown(SlabGrow(sl, c), c) ELSE SlabPopHead(sl, c)

\* SlabCache::dealloc
SlabPanic(sl, op, c, a) == [sl EXCEPT !.panicked = TRUE, !.ret = SlabRet(op, c, a, "Panic")]
\* a dealloc that takes every cache for the owner
SlabOwnerAny(sl, c, a) == TRUE
\* block.belong is this cache
SlabOwnerOk(sl, c, a) == sl.block[BlockOf(a)].belong = CacheAddr(c)
\* node.next = self.freelist
SlabLink(sl, c, a) == [sl EXCEPT !.node[a] = sl.cache[c].freelist]
\* self.freelist = node; block.size -= 1
SlabPush(sl, c, a) ==
    [sl EXCEPT !.cache[c].freelist = a,
               !.block[BlockOf(a)].size = @ - 1,
               !.held[a] = @ - 1,
               !.allocs[c] = None,
               !.ret = SlabRet("dealloc", c, a, "Ok")]
SlabDeallocOf(sl, c, a) ==
    IF SlabOwnerOk(sl, c, a) THEN SlabPush(SlabLink(sl, c, a), c, a) ELSE SlabPanic(sl, "dealloc", c, a)

\* SlabCache::shrink.  The loops are given as many rounds as a list without
\* a cycle can need; a loop that does not end within them never ends.
SlabFuel == Cardinality(NodeAddrs) + SlabFrames + 1
Walked(ok, v) == [ok |-> ok, v |-> v]
\* a shrink that leaves the freelist behind its first node as it is
ShrinkFreeNone(node, block, prev, cur, fuel) == Walked(TRUE, node)
\* the first loop of shrink: the freelist behind its first node loses the
\* nodes of empty blocks
RECURSIVE ShrinkFree(_, _, _, _, _)
ShrinkFree(node, block, prev, cur, fuel) ==
    IF cur = Null THEN Walked(TRUE, node)
    ELSE IF fuel = 0 THEN Walked(FALSE, node)
    ELSE IF block[BlockOf(cur)].size = 0
         THEN ShrinkFree([node EXCEPT ![prev] = node[cur]], block, prev, node[cur], fuel - 1)
         ELSE ShrinkFree(node, block, cur, node[cur], fuel - 1)
\* the first node of the freelist, looked at after the others
ShrinkFirst(sl, c) ==
    IF sl.block[BlockOf(sl.cache[c].freelist)].size = 0
    THEN [sl EXCEPT !.cache[c].freelist = sl.node[sl.cache[c].freelist]]
    ELSE sl
RECURSIVE ShrinkBlocks(_, _, _, _)
ShrinkBlocks(sl, pre, cur, fuel) ==
    IF cur = Null THEN Walked(TRUE, sl)
    ELSE IF fuel = 0 THEN Walked(FALSE, sl)
    ELSE IF sl.block[cur].size = 0
         THEN ShrinkBlocks([sl EXCEPT !.block[pre].next = sl.block[cur].next,
                                      !.pool = SlabFrameDealloc(@, cur)],
                           pre, sl.block[cur].next, fuel - 1)
         ELSE ShrinkBlocks(sl, sl.block[pre].next, sl.block[cur].next, fuel - 1)
\* a shrink that leaves the head block alone
ShrinkHeadKept(sl, c) == sl
\* the head block, looked at after the others
ShrinkHead(sl, c) ==
    IF sl.block[sl.cache[c].head].size = 0
    THEN [sl EXCEPT !.cache[c].head = sl.block[sl.cache[c].head].next,
                    !.pool = SlabFrameDealloc(@, sl.cache[c].head)]
    ELSE sl
SlabHang(sl, c) == [sl EXCEPT !.ret = SlabRet("shrink", c, Null, "Hang")]
\* the record of the call names the head it found
ShrinkDone(sl, c, head) == [sl EXCEPT !.allocs[c] = None, !.ret = SlabRet("shrink", c, head, "Ok")]
ShrinkLists(sl, c, cleaned) ==
    IF ~cleaned.ok THEN Walked(FALSE, sl)
    ELSE ShrinkBlocks(ShrinkFirst([sl EXCEPT !.node = cleaned.v], c),
                      sl.cache[c].head, sl.block[sl.cache[c].head].next, SlabFuel)
ShrinkEnd(sl, c, r) == IF ~r.ok THEN SlabHang(sl, c) ELSE ShrinkDone(ShrinkHead(r.v, c), c, sl.cache[c].head)
SlabShrinkOf(sl, c) ==
    IF sl.cache[c].head = Null \/ sl.cache[c].freelist = Null
    THEN ShrinkDone(sl, c, sl.cache[c].head)
    ELSE ShrinkEnd(sl, c,
           ShrinkLists(sl, c, ShrinkFree(sl.node, sl.block, sl.cache[c].freelist,
                                         sl.node[sl.cache[c].freelist], SlabFuel)))

\* ------------------------------------------------------------ inode
\* The offsets read_page_at is called with, the last one past the file.
InodeOffsets == {k * PAGE_SIZE : k \in 0 .. InodePages}
Tasks == Harts
TaskIdle == [pc |-> "idle", off |-> None, page |-> None]
Got(off, page) == [off |-> off, page |-> page]
\* Ext4Inode::new: an empty PageCache.  Pages are named by the order of
\* their creation; `got` is the last return of each task and `handed` all
\* the <<offset, page>> returned so far; `first_wins` tells whether
\* insert_page keeps the page an offset already has or replaces it.
Ext4InodeOf(first_wins) ==
    [cache |-> [o \in InodeOffsets |-> None],
     end |-> 0,
     pages |-> 0,
     first_wins |-> first_wins,
     task |-> [t \in Tasks |-> TaskIdle],
     got |-> [t \in Tasks |-> Got(None, None)],
     handed |-> {}]
Ext4InodeNew == Ext4InodeOf(TRUE)

\* a cache that never finds a page
GetPageMiss(ino, off) == None
\* PageCache::get_page
GetPage(ino, off) == ino.cache[off]
\* PageCache::insert_page
InsertPage(ino, off, page) ==
    IF ino.first_wins /\ ino.cache[off] # None THEN ino
    ELSE [ino EXCEPT !.cache[off] = page]
\* PageCache::update_end: the high-water mark
UpdateEnd(ino, end) == [ino EXCEPT !.end = IF end > @ THEN end ELSE @]
\* Page::read_from: the bytes read, clamped to the file size
ReadSize(off) == IF FileSize - off < PAGE_SIZE THEN FileSize - off ELSE PAGE_SIZE

\* Ext4Inode::read_page_at returns r to task t
ReadReturn(ino, t, off, r) ==
    [ino EXCEPT !.task[t] = TaskIdle,
                !.got[t] = Got(off, r),
                !.handed = IF r = None THEN @ ELSE @ \cup {<<off, r>>}]
\* get_page missed: Page::new(offset) and read_from
ReadMiss(ino, t, off) ==
    [ino EXCEPT !.pages = @ + 1,
                !.task[t] = [pc |-> "insert", off |-> off, page |-> ino.pages + 1]]
\* insert_page, update_end, Some(page) with the page this call created
ReadInsert(ino, t) ==
    ReadReturn(UpdateEnd(InsertPage(ino, ino.task[t].off, ino.task[t].page),
                         ino.task[t].off + ReadSize(ino.task[t].off)),
               t, ino.task[t].off, ino.task[t].page)
\* the call up to the return or to the miss
ReadLookup(ino, t, off) ==
    IF off >= FileSize THEN ReadReturn(ino, t, off, None)
    ELSE IF GetPage(ino, off) # None THEN ReadReturn(ino, t, off, GetPage(ino, off))
    ELSE ReadMiss(ino, t, off)
ReadRest(ino, t) == IF ino.task[t].pc = "insert" THEN ReadInsert(ino, t) ELSE ino
\* the whole call, nothing else running on the inode
ReadPageAtOf(ino, t, off) == ReadRest(ReadLookup(ino, t, off), t)

\* ------------------------------------------------------------ multi-level page table
\* A table holds PtEntries entries (512 in the code) and a VPN has PG_LEVEL
\* indexes.  Frames 1 .. PtPool are what the page table's allocator hands
\* out, the frames above them are what callers map.
PageLevels == <<"Huge", "Big", "Small">>

\* PageLevel::from(i), i counted from 0
PageLevelFrom(i) == PageLevels[i + 1]

\* PageLevel::page_count
PageCount(level) ==
    CASE level = "Huge" -> PtEntries * PtEntries
      [] level = "Big" -> PtEntries
      [] level = "Small" -> 1

\* VirtPageNum::indexes: the index into the root table first
VpnIndexes(vpn) ==
    <<(vpn \div (PtEntries * PtEntries)) % PtEntries, (vpn \div PtEntries) % PtEntries,
      vpn % PtEntries>>

PtVpns == 0 .. (PtEntries * PtEntries * PtEntries - 1)
PtTableFrames == 1 .. PtPool
PtDataFrames == (PtPool + 1) .. (PtPool + PtData)
PtPpns == PtTableFrames \cup PtDataFrames
PtSlots == 0 .. (PtEntries - 1)

\* a frame of zero bytes, and a frame whose bytes were never initialised
\* and read as valid entries
ZeroTable == [i \in PtSlots |-> PteEmpty]
JunkTable == [i \in PtSlots |-> PageTableEntryNew(PtPool + PtData, {"R"}, TRUE)]

\* PageTableEntry::is_leaf
PteIsLeaf(pte) == FALSE

PtCall(op, vpn, ppn, level, res) ==
    [op |-> op, vpn |-> vpn, ppn |-> ppn, level |-> level, res |-> res]

\* PageTable::new_in: the root frame is allocated and zeroed, no frame is
\* owned yet.  data: what the frames of the callers hold.
PageTableNewIn(data) ==
    [root_ppn |-> 1, frames |-> <<>>, free |-> PtTableFrames \ {1},
     mem |-> [p \in PtPpns |-> IF p = 1 THEN ZeroTable
                               ELSE IF p \in PtTableFrames THEN JunkTable ELSE data],
     ret |-> PtCall("new_in", 0, 0, "Small", "Ok"), panicked |-> FALSE, steps |-> 0]
PageTableNew == PageTableNewIn(ZeroTable)

\* the result of a walk: st is "some", "none" or "panic"; the entry found
\* is entry idx of the table in frame, at level index i
Found(st, pt, frame, idx, i) == [st |-> st, pt |-> pt, frame |-> frame, idx |-> idx, i |-> i]

\* find_pte_create, the branch of an invalid entry: a fresh zeroed table
PtGrowInto(pt, ppn, idx, frame) ==
    [pt EXCEPT !.free = @ \ {frame},
               !.mem = [[@ EXCEPT ![frame] = ZeroTable]
                            EXCEPT ![ppn][idx] = PageTableEntryNew(frame, {}, TRUE)],
               !.frames = Append(@, frame)]

\* PageTable::find_pte_create from level index i, in the table of ppn
RECURSIVE FindPteCreate(_, _, _, _, _)
FindPteCreate(pt, idxs, level, i, ppn) ==
    IF i >= PG_LEVEL THEN Found("none", pt, 0, 0, 0)
    ELSE IF PageLevelFrom(i) = level THEN Found("some", pt, ppn, idxs[i + 1], i)
    ELSE IF PteIsValid(pt.mem[ppn][idxs[i + 1]])
         THEN FindPteCreate(pt, idxs, level, i + 1, pt.mem[ppn][idxs[i + 1]].ppn)
    ELSE IF pt.free = {} THEN Found("panic", pt, 0, 0, 0)
    ELSE FindPteCreate(PtGrowInto(pt, ppn, idxs[i + 1], Min(pt.free)),
                       idxs, level, i + 1, Min(pt.free))

\* PageTable::find_pte from level index i, in the table of ppn
RECURSIVE FindPteFrom(_, _, _, _)
FindPteFrom(pt, idxs, i, ppn) ==
    IF i >= PG_LEVEL THEN Found("none", pt, 0, 0, 0)
    ELSE IF ~PteIsValid(pt.mem[ppn][idxs[i + 1]]) THEN Found("none", pt, 0, 0, 0)
    ELSE IF PteIsLeaf(pt.mem[ppn][idxs[i + 1]]) \/ i = PG_LEVEL - 1
         THEN Found("some", pt, ppn, idxs[i + 1], i)
    ELSE FindPteFrom(pt, idxs, i + 1, pt.mem[ppn][idxs[i + 1]].ppn)
PageTableFindPte(pt, vpn) == FindPteFrom(pt, VpnIndexes(vpn), 0, pt.root_ppn)

\* PageTable::translate_vpn
PtTranslateFound(pt, vpn, f) ==
    IF f.st # "some" THEN None
    ELSE IF ~PteIsValid(pt.mem[f.frame][f.idx]) THEN None
    ELSE pt.mem[f.frame][f.idx].ppn + (vpn % PageCount(PageLevelFrom(f.i)))
PageTableTranslateVpn(pt, vpn) == PtTranslateFound(pt, vpn, PageTableFindPte(pt, vpn))

\* PageTable::translate_va
PtTranslateVaFound(pt, va, f) ==
    IF f.st # "some" THEN None
    ELSE IF ~PteIsValid(pt.mem[f.frame][f.idx]) THEN None
    ELSE StartAddr(pt.mem[f.frame][f.idx].ppn)
         + (va % (PageCount(PageLevelFrom(f.i)) * PAGE_SIZE))
PageTableTranslateVa(pt, va) == PtTranslateVaFound(pt, va, PageTableFindPte(pt, VaFloor(va)))

\* PageTable::map: the entry find_pte_create returns is overwritten
PtMapFound(f, ppn, perm) ==
    IF f.st # "some" THEN [f.pt EXCEPT !.panicked = TRUE]
    ELSE [f.pt EXCEPT !.mem[f.frame][f.idx] = PageTableEntryNew(ppn, perm, TRUE)]
PageTableMapOf(pt, vpn, ppn, perm, level) ==
    PtMapFound(FindPteCreate(pt, VpnIndexes(vpn), level, 0, pt.root_ppn), ppn, perm)

\* PageTable::unmap: panics when find_pte returns None
PtUnmapFound(pt, f) ==
    IF f.st # "some" THEN [pt EXCEPT !.panicked = TRUE]
    ELSE [pt EXCEPT !.mem[f.frame][f.idx] = PageTableEntryNew(0, {}, FALSE)]
PageTableUnmapOf(pt, vpn) == PtUnmapFound(pt, PageTableFindPte(pt, vpn))

\* ------------------------------------------------------------ machine
EmptyFrames == [v \in {} |-> 0]
EmptyPt == [v \in VPNS |-> PteEmpty]
DeadSpace == [live |-> FALSE, pt |-> EmptyPt, pt_frames |-> {}, areas |-> {}, heap_bottom_va |-> 0]
Restrict(f, S) == [x \in S |-> f[x]]
PageOffsets == {o \in 0 .. FileSize : o % PAGE_SIZE = 0 /\ o < FileSize}

\* The machine state threaded through one call.
Machine(sp, ca, me) == [spaces |-> sp, cache |-> ca, mem |-> me]

\* ------------------------------------------------------------ frames
\* StrongArc::get_owners: the strong count of the SharedFrame of a PPN.  A
\* frame is held by every frames-map entry that names it and by the page
\* of the page cache built on it.
AreaHolds(a, ppn) == Cardinality({v \in DOMAIN a.frames : a.frames[v] = ppn})
RECURSIVE SumHolds(_, _)
SumHolds(as, ppn) ==
    IF as = {} THEN 0
    ELSE AreaHolds(CHOOSE x \in as : TRUE, ppn) + SumHolds(as \ {CHOOSE x \in as : TRUE}, ppn)
RECURSIVE SpaceHolds(_, _, _)
SpaceHolds(g, ss, ppn) ==
    IF ss = {} THEN 0
    ELSE SumHolds(g.spaces[Min(ss)].areas, ppn) + SpaceHolds(g, ss \ {Min(ss)}, ppn)
CacheHolds(g, ppn) == IF \E o \in PageOffsets : g.cache[o] = ppn THEN 1 ELSE 0
GetOwners(g, ppn) == SpaceHolds(g, SpaceIds, ppn) + CacheHolds(g, ppn)

\* Frames with a tracker alive: in a frames map, under a cached page, or
\* a frame of a page table.
AreaFrames(a) == {a.frames[v] : v \in DOMAIN a.frames}
HeldFrames(g) ==
    UNION {AreaFrames(a) : a \in UNION {g.spaces[s].areas : s \in SpaceIds}}
    \cup {g.cache[o] : o \in PageOffsets}
    \cup UNION {g.spaces[s].pt_frames : s \in SpaceIds}

\* Frames the bitmap marks free.  held: trackers alive in locals of the
\* running call.
FreeFrames(g, held) == (Managed \ HeldFrames(g)) \ held

\* FrameAllocator::alloc(1): first fit, None when exhausted
MinOrNone(S) == IF S = {} THEN None ELSE Min(S)
FrameAlloc(g, held) == MinOrNone(FreeFrames(g, held))

\* n allocations in a row with nothing freed in between take the n lowest
\* free frames in ascending order.
Rank(S, x) == Cardinality({y \in S : y < x})
Lowest(S, n) == {x \in S : Rank(S, x) < n}
Nth(S, i) == CHOOSE x \in S : Rank(S, x) = i

\* ------------------------------------------------------------ RangeMap
\* The interval map of areas: every area carries its key range k.
RmGet(areas, va) == {a \in areas : RangeHas(a.k, va)}

RmIsRangeFree(areas, r) == ~RangeEmpty(r) /\ \A a \in areas : ~Overlap(a.k, r)

\* try_insert succeeds iff the range is free
RmInsert(areas, r, a) == areas \cup {[a EXCEPT !.k = r]}

\* find_free_range: lowest start in the window with size free bytes
RmFreeStarts(areas, win, size) ==
    {st \in {win[1]} \cup {a.k[2] : a \in areas} :
        /\ win[1] <= st /\ st + size <= win[2]
        /\ RmIsRangeFree(areas, <<st, st + size>>)}
RangeFrom(starts, size) ==
    IF starts = {} THEN {} ELSE {<<Min(starts), Min(starts) + size>>}
RmFindFreeRange(areas, win, size) == RangeFrom(RmFreeStarts(areas, win, size), size)

\* extend_back / reduce_back: move the end of the node that starts at r[1]
RmCanExtendBack(areas, r) ==
    /\ \E a \in areas : a.k[1] = r[1]
    /\ \A a \in areas : a.k[1] # r[1] => ~Overlap(a.k, r)
RmCanReduceBack(areas, r) == \E a \in areas : a.k[1] = r[1]
RmSetEnd(areas, r) ==
    {IF a.k[1] = r[1] THEN [a EXCEPT !.k = r] ELSE a : a \in areas}

\* ------------------------------------------------------------ VM area
\* UserVmArea::new: bounds canonicalised to [floor(start), ceil(end))
UserVmAreaNew(r, type, perm) ==
    [k |-> <<0, 0>>,
     range_va |-> <<StartAddr(VaFloor(r[1])), StartAddr(VaCeil(r[2]))>>,
     vma_type |-> type, map_perm |-> perm, frames |-> EmptyFrames,
     file |-> FALSE, offset |-> 0, len |-> 0, mmap_flags |-> {}]

\* UserVmArea::new_mmap
UserVmAreaNewMmap(r, perm, flags, file, offset, len) ==
    [UserVmAreaNew(r, "Mmap", perm) EXCEPT
        !.file = file, !.offset = offset, !.len = len, !.mmap_flags = flags]

\* UserVmArea::range_vpn
RangeVpn(a) == VaFloor(a.range_va[1]) .. (VaCeil(a.range_va[2]) - 1)

SplitOffsetOf(a, p) == a.offset + (p - VaFloor(a.range_va[1])) * PAGE_SIZE
SplitLenOf(a, p) ==
    IF SplitOffsetOf(a, p) - a.offset > a.len THEN 0
    ELSE a.len - (SplitOffsetOf(a, p) - a.offset)
\* a split_off that moves the range and leaves the frames where they were
SplitOffRangeOnly(a, p) ==
    <<[a EXCEPT !.range_va = <<a.range_va[1], StartAddr(p)>>,
                !.len = IF a.file THEN a.len - SplitLenOf(a, p) ELSE a.len],
      [a EXCEPT !.range_va = <<StartAddr(p), a.range_va[2]>>,
                !.frames = EmptyFrames,
                !.offset = IF a.file THEN SplitOffsetOf(a, p) ELSE 0,
                !.len = IF a.file THEN SplitLenOf(a, p) ELSE 0]>>
\* UserVmArea::split_off(p): <<what stays in self, the detached right part>>
SplitOff(a, p) ==
    <<[a EXCEPT !.range_va = <<a.range_va[1], StartAddr(p)>>,
                !.frames = Restrict(a.frames, {v \in DOMAIN a.frames : v < p}),
                !.len = IF a.file THEN a.len - SplitLenOf(a, p) ELSE a.len],
      [a EXCEPT !.range_va = <<StartAddr(p), a.range_va[2]>>,
                !.frames = Restrict(a.frames, {v \in DOMAIN a.frames : v >= p}),
                !.offset = IF a.file THEN SplitOffsetOf(a, p) ELSE 0,
                !.len = IF a.file THEN SplitLenOf(a, p) ELSE 0]>>

\* UserVmArea::map: a leaf for every frame the area holds, with map_perm;
\* PageTable::map overwrites the slot
AreaMap(pt, a) ==
    [v \in VPNS |-> IF v \in DOMAIN a.frames
                    THEN PageTableEntryNew(a.frames[v], a.map_perm, TRUE)
                    ELSE pt[v]]

\* an unmap that leaves the page table as it is
AreaUnmapKeeping(pt, a) == pt

\* an unmap that stops after the lowest key of frames
AreaUnmapFirst(pt, a) ==
    [v \in VPNS |-> IF v \in DOMAIN a.frames /\ (\A x \in DOMAIN a.frames : v <= x)
                    THEN PageTableEntryNew(0, {}, FALSE)
                    ELSE pt[v]]

\* UserVmArea::unmap: page_table.unmap for every key of frames; the frames
\* map itself is left as it is.  PageTable::unmap panics on an entry that
\* find_pte does not find.
AreaUnmapPanics(pt, a) == \E v \in DOMAIN a.frames : FindPte(pt, v) = {}
AreaUnmap(pt, a) ==
    [v \in VPNS |-> IF v \in DOMAIN a.frames
                    THEN PageTableEntryNew(0, {}, FALSE)
                    ELSE pt[v]]

\* ------------------------------------------------------------ page cache
St(st, g) == [st |-> st, g |-> g]
Page(st, g, ppn) == [st |-> st, g |-> g, ppn |-> ppn]
Built(st, g, area) == [st |-> st, g |-> g, area |-> area]

\* Page::new on frame n and its insertion in the cache: the file bytes up
\* to the file size; what lies behind them in the frame is not written.
ReadFresh(g, off, n) ==
    IF n = None THEN Page("panic", g, None)
    ELSE Page("some",
              [g EXCEPT !.cache[off] = n,
                        !.mem[n] = <<FilePage(off)[1],
                                     IF off + PAGE_SIZE <= FileSize THEN FilePage(off)[2]
                                     ELSE @[2]>>],
              n)

\* Inode::read_page_at(offset): None at or past the file size; the cached
\* page if there is one; else a new page on a fresh frame.
\* Result: st is "some", "none" or "panic" (no frame for the new page).
ReadPageAt(g, off, held) ==
    IF off >= FileSize THEN Page("none", g, None)
    ELSE IF g.cache[off] # None THEN Page("some", g, g.cache[off])
    ELSE ReadFresh(g, off, FrameAlloc(g, held))

\* ------------------------------------------------------------ user VM space

\* UserVmSpace::from_kernel: PageTable::new_in allocates the root; the
\* tables under it are created by the first map (find_pte_create).  All
\* VPNS of the scaled layout share one table per level.
NewSpace(g, s, fr) ==
    IF Cardinality(fr) < PG_LEVEL THEN St("panic", g)
    ELSE St("ok", [g EXCEPT !.spaces[s] = [live |-> TRUE, pt |-> EmptyPt, pt_frames |-> fr,
                                           areas |-> {}, heap_bottom_va |-> 0],
                            !.mem = [p \in PPNS |-> IF p \in fr THEN ZeroPage ELSE @[p]]])
FromKernel(g, s) == NewSpace(g, s, Lowest(FreeFrames(g, {}), PG_LEVEL))

\* a with a frame for every VPN of todo, taken from free in ascending order
WithFrames(a, todo, free) ==
    [a EXCEPT !.frames = [x \in DOMAIN @ \cup todo |->
                             IF x \in todo THEN Nth(free, Rank(todo, x)) ELSE @[x]]]

\* UserVmArea::copy_data for whole-page chunks: a frame is allocated for
\* every chunk whose VPN does not translate yet, and the chunk is written
\* to the frame of its VPN.
CopyDone(g, s, todo, a2) ==
    Built("ok",
          [g EXCEPT !.mem = [p \in PPNS |->
              IF \E v \in todo : p = (IF TranslateVpn(g.spaces[s].pt, v) # None
                                      THEN TranslateVpn(g.spaces[s].pt, v) ELSE a2.frames[v])
              THEN ElfPage ELSE @[p]]],
          a2)
CopyInto(g, s, a, todo, need, free) ==
    IF Cardinality(free) < Cardinality(need) THEN Built("panic", g, a)
    ELSE CopyDone(g, s, todo, WithFrames(a, need, free))
CopyData(g, s, a, todo) ==
    CopyInto(g, s, a, todo, {v \in todo : TranslateVpn(g.spaces[s].pt, v) = None},
             FreeFrames(g, AreaFrames(a)))

\* UserVmSpace::push_area: try_insert, copy_data when data is given, map.
\* ndata: number of page chunks of data.
Pushed(s, cd) ==
    IF cd.st = "panic" THEN St("panic", cd.g)
    ELSE St("ok", [cd.g EXCEPT !.spaces[s].areas = RmInsert(@, cd.area.range_va, cd.area),
                               !.spaces[s].pt = AreaMap(@, cd.area)])
\* a push_area that inserts without asking whether the range is free
PushAreaUnchecked(g, s, area, ndata) ==
    Pushed(s, CopyData(g, s, area,
                       {v \in RangeVpn(area) : v < VaFloor(area.range_va[1]) + ndata}))
PushArea(g, s, area, ndata) ==
    IF ~RmIsRangeFree(g.spaces[s].areas, area.range_va) THEN St("panic", g)
    ELSE Pushed(s, CopyData(g, s, area,
                            {v \in RangeVpn(area) : v < VaFloor(area.range_va[1]) + ndata}))

\* UserVmArea::alloc_frames: a frame for every VPN of the area
AllocWith(g, a, todo, free) ==
    IF Cardinality(free) < Cardinality(todo) THEN Built("panic", g, a)
    ELSE Built("ok", g, WithFrames(a, todo, free))
AllocFrames(g, a, todo) == AllocWith(g, a, todo, FreeFrames(g, AreaFrames(a)))

\* UserVmSpace::from_elf for an ELF with one PT_LOAD segment (read-write,
\* DataPages pages, all of them file bytes): the Data area with its data,
\* the heap base, the Stack area, the pre-populated TrapContext area.
ElfData(r, s) ==
    IF r.st # "ok" THEN r
    ELSE PushArea(r.g, s, UserVmAreaNew(<<0, ELF_DATA_END>>, "Data", {"U", "R", "W"}), DataPages)
ElfHeap(r, s) ==
    IF r.st # "ok" THEN r
    ELSE St("ok", [r.g EXCEPT !.spaces[s].heap_bottom_va = StartAddr(VaCeil(ELF_DATA_END))])
ElfStack(r, s) ==
    IF r.st # "ok" THEN r
    ELSE PushArea(r.g, s, UserVmAreaNew(<<USER_STACK_BOTTOM, USER_STACK_TOP>>, "Stack",
                                        {"R", "W", "U"}), 0)
TrapArea == UserVmAreaNew(<<USER_TRAP_CONTEXT_BOTTOM, USER_TRAP_CONTEXT_TOP>>,
                          "TrapContext", {"R", "W"})
PushTrap(s, tf) == IF tf.st # "ok" THEN St("panic", tf.g) ELSE PushArea(tf.g, s, tf.area, 0)
ElfTrap(r, s) ==
    IF r.st # "ok" THEN r ELSE PushTrap(s, AllocFrames(r.g, TrapArea, RangeVpn(TrapArea)))
FromElf(g, s) == ElfTrap(ElfStack(ElfHeap(ElfData(FromKernel(g, s), s), s), s), s)

Boot == Machine([s \in SpaceIds |-> DeadSpace],
                [o \in PageOffsets |-> None],
                [p \in PPNS |-> BootPage])

Call(op, s, va, len, acc, res, ret) ==
    [op |-> op, s |-> s, va |-> va, len |-> len, acc |-> acc, res |-> res, ret |-> ret]

\* ------------------------------------------------------------ cached reads
\* The file holds FileSize bytes, told apart by half pages: half h of the
\* file is the value h, a half past the end of what was read is -1 (zero
\* fill).  Offsets and lengths are multiples of HALF_PAGE.
CreadOffsets == {k * PAGE_SIZE : k \in 0 .. FileHalves + CreadLen}
FileHalf(off) == IF off < FileSize THEN off \div HALF_PAGE ELSE -1

\* a cache holding the pages read_page_at has put at the offsets in `had`;
\* cache[o] is the file offset the page under key o was read from
CreadRet(offset, len, n, bytes) == [offset |-> offset, len |-> len, n |-> n, bytes |-> bytes]
CacheReaderNew(had) ==
    [cache |-> [o \in CreadOffsets |-> IF o \in had THEN o ELSE None],
     end |-> IF had = {} THEN 0
             ELSE Min({FileSize} \cup {(CHOOSE m \in had : \A o \in had : o <= m) + PAGE_SIZE}),
     ret |-> CreadRet(0, 0, 0, <<>>), steps |-> 0]

\* Ext4Inode::read_at: file_seek and file_read, clamped to the file size
DirectCount(offset, len) ==
    IF offset >= FileSize THEN 0
    ELSE IF offset + len > FileSize THEN FileSize - offset ELSE len
DirectReadAt(offset, len) ==
    [i \in 1 .. DirectCount(offset, len) \div HALF_PAGE |-> FileHalf(offset + (i - 1) * HALF_PAGE)]

\* Page::read_from(inode, from): the bytes read, none past the file's end
CreadSize(from) ==
    IF from >= FileSize THEN 0
    ELSE IF FileSize - from < PAGE_SIZE THEN FileSize - from ELSE PAGE_SIZE
\* Page::read_at(in_page_offset, buf): the count and the halves copied
\* from a page that was read from `from`
PageReadCount(in_page_offset, room) ==
    IF room < PAGE_SIZE - in_page_offset THEN room ELSE PAGE_SIZE - in_page_offset
PageReadAt(from, in_page_offset, room) ==
    [i \in 1 .. PageReadCount(in_page_offset, room) \div HALF_PAGE |->
        IF in_page_offset + (i - 1) * HALF_PAGE < CreadSize(from)
        THEN FileHalf(from + in_page_offset + (i - 1) * HALF_PAGE) ELSE -1]

\* the miss branch of cache_read_at: Page::new(page_offset),
\* read_from(self, offset), insert_page, update_end
CreadMiss(rd, page_offset, offset) ==
    [rd EXCEPT !.cache[page_offset] = offset,
               !.end = IF page_offset + CreadSize(offset) > @
                       THEN page_offset + CreadSize(offset) ELSE @]
CreadPage(rd, page_offset, offset) ==
    IF rd.cache[page_offset] # None THEN rd ELSE CreadMiss(rd, page_offset, offset)

\* the loop of cache_read_at
RECURSIVE CacheReadLoop(_, _, _, _, _, _)
CreadCopy(rd, offset, len, current_offset, buf_offset, out, page_offset) ==
    CacheReadLoop(rd, offset, len,
        current_offset + PageReadCount(current_offset % PAGE_SIZE, len - buf_offset),
        buf_offset + PageReadCount(current_offset % PAGE_SIZE, len - buf_offset),
        out \o PageReadAt(rd.cache[page_offset], current_offset % PAGE_SIZE, len - buf_offset))
CacheReadLoop(rd, offset, len, current_offset, buf_offset, out) ==
    IF buf_offset >= len \/ current_offset > rd.end
    THEN [rd EXCEPT !.ret = CreadRet(offset, len, buf_offset, out)]
    ELSE CreadCopy(CreadPage(rd, (current_offset \div PAGE_SIZE) * PAGE_SIZE, offset),
                   offset, len, current_offset, buf_offset, out,
                   (current_offset \div PAGE_SIZE) * PAGE_SIZE)
\* Ext4Inode::cache_read_at
CacheReadAtOf(rd, offset, len) == CacheReadLoop(rd, offset, len, offset, 0, <<>>)

\* ------------------------------------------------------------ split_off inputs
\* the areas split_off is given: a range of whole pages, frames only at
\* VPNs of the range, a file part for file-backed areas
SplitFrames(s, e) ==
    UNION {[K -> {FrameBase, FrameBase + 1}] : K \in SUBSET (s .. e - 1)}
SplitAnon(s, e, fr) ==
    [UserVmAreaNew(<<StartAddr(s), StartAddr(e)>>, "Heap", {"R", "W", "U"}) EXCEPT !.frames = fr]
SplitMmap(s, e, fr, offset, len) ==
    [UserVmAreaNewMmap(<<StartAddr(s), StartAddr(e)>>, {"R", "W", "U"}, {"MAP_SHARED"},
                       TRUE, offset, len) EXCEPT !.frames = fr]
SplitAreas ==
    UNION {UNION {{SplitAnon(s, e, fr) : fr \in SplitFrames(s, e)}
                  \cup {SplitMmap(s, e, fr, offset, len) :
                          fr \in SplitFrames(s, e), offset \in {0, PAGE_SIZE},
                          len \in {h * HALF_PAGE : h \in 0 .. 2 * (e - s)}}
                  : e \in s + 1 .. SplitVpns} : s \in 0 .. SplitVpns - 1}
SplitCall(a, p, parts, done) == [area |-> a, p |-> p, left |-> parts[1], right |-> parts[2], done |-> done]
SplitIdle == SplitCall(SplitAnon(0, 1, EmptyFrames), 0, <<SplitAnon(0, 1, EmptyFrames), SplitAnon(0, 1, EmptyFrames)>>, FALSE)

\* ------------------------------------------------------------ page range iterator
\* VpnPageRangeIter::new
VpnPageRangeIterNew(range_vpn) ==
    [range_vpn |-> range_vpn, given |-> range_vpn, out |-> <<>>, done |-> FALSE]

IterSome(r, level) ==
    [some |-> TRUE, item |-> <<r[1], level>>, range_vpn |-> <<r[1] + PageCount(level), r[2]>>]
IterNone(r) == [some |-> FALSE, item |-> <<>>, range_vpn |-> r]

\* a next() that takes the largest level that fits, aligned or not
VpnIterNextUnaligned(r) ==
    IF r[1] >= r[2] THEN IterNone(r)
    ELSE IF r[2] - r[1] >= PageCount("Huge") THEN IterSome(r, "Huge")
    ELSE IF r[2] - r[1] >= PageCount("Big") THEN IterSome(r, "Big")
    ELSE IterSome(r, "Small")

\* VpnPageRangeIter::next
VpnIterNext(r) ==
    IF r[1] >= r[2] THEN IterNone(r)
    ELSE IF r[1] % PageCount("Huge") = 0 /\ r[2] - r[1] >= PageCount("Huge")
         THEN IterSome(r, "Huge")
    ELSE IF r[1] % PageCount("Big") = 0 /\ r[2] - r[1] >= PageCount("Big")
         THEN IterSome(r, "Big")
    ELSE IterSome(r, "Small")

\* ------------------------------------------------------------ kernel VM space
\* The kernel window, scaled: one page of kernel data below it, the
\* kernel stack above it.
KERNEL_VM_BOTTOM == PAGE_SIZE
KERNEL_VM_TOP == KERNEL_VM_BOTTOM + KvmPages * PAGE_SIZE

\* KernVmArea::new
KernVmAreaNew(r, type, perm) == UserVmAreaNew(r, type, perm)

KvmCall(op, frames, perm, res, range) ==
    [op |-> op, frames |-> frames, perm |-> perm, res |-> res, range |-> range]

\* KernVmSpace::new: the areas of the kernel image and stack, mapped
\* linearly
KvmBootAreas ==
    {[KernVmAreaNew(<<0, KERNEL_VM_BOTTOM>>, "Data", {"R", "W"}) EXCEPT !.k = <<0, KERNEL_VM_BOTTOM>>],
     [KernVmAreaNew(<<KERNEL_VM_TOP, KERNEL_VM_TOP + PAGE_SIZE>>, "KernelStack", {"R", "W"})
         EXCEPT !.k = <<KERNEL_VM_TOP, KERNEL_VM_TOP + PAGE_SIZE>>]}
KernVmSpaceNew ==
    [areas |-> KvmBootAreas,
     pt |-> [v \in VPNS |-> IF \E a \in KvmBootAreas : v \in RangeVpn(a)
                            THEN PageTableEntryNew(v, {"R", "W"}, TRUE) ELSE PteEmpty],
     ret |-> KvmCall("new", <<>>, {}, "", <<0, 0>>), steps |-> 0, panicked |-> FALSE]

\* a map_vm_area that gives every VPN the first frame
KvmWithFirstFrame(vma, frames) ==
    [vma EXCEPT !.frames = [v \in RangeVpn(vma) |-> frames[1]]]

\* map_vm_area: the i-th VPN of the range gets the i-th frame
KvmWithFrames(vma, frames) ==
    [vma EXCEPT !.frames = [v \in RangeVpn(vma) |-> frames[v - VaFloor(vma.range_va[1]) + 1]]]

\* KernVmSpace::push_area without data: area.map, then try_insert, its
\* result dropped
KvmPushArea(kv, area) ==
    [kv EXCEPT !.pt = AreaMap(@, area),
               !.areas = IF RmIsRangeFree(@, area.range_va)
                         THEN RmInsert(@, area.range_va, area) ELSE @]

\* KernVmSpace::map_vm_area
KvmMapFound(kv, found, frames, perm) ==
    IF found = {} THEN [kv EXCEPT !.ret = KvmCall("map_vm_area", frames, perm, "None", <<0, 0>>)]
    ELSE [KvmPushArea(kv, KvmWithFrames(KernVmAreaNew(CHOOSE r \in found : TRUE, "VirtMemory", perm),
                                        frames))
            EXCEPT !.ret = KvmCall("map_vm_area", frames, perm, "Some",
                                   <<VaFloor((CHOOSE r \in found : TRUE)[1]),
                                     VaCeil((CHOOSE r \in found : TRUE)[2])>>)]
MapVmAreaOf(kv, frames, perm) ==
    KvmMapFound(kv, RmFindFreeRange(kv.areas, <<KERNEL_VM_BOTTOM, KERNEL_VM_TOP>>,
                                    Len(frames) * PAGE_SIZE),
                frames, perm)

\* KernVmArea::unmap: page_table.unmap for every VPN of the range
KvmAreaUnmap(pt, a) ==
    [v \in VPNS |-> IF v \in RangeVpn(a) THEN PageTableEntryNew(0, {}, FALSE) ELSE pt[v]]

\* the try_insert of a part when it is not empty, its result dropped
KvmPutBack(areas, part) ==
    IF RangeEmpty(part.range_va) \/ ~RmIsRangeFree(areas, part.range_va) THEN areas
    ELSE RmInsert(areas, part.range_va, part)

\* KernVmSpace::unmap_vm_area: lm is left.split_off(range_vpn.start);
\* mid.unmap runs before right is split off mid
KvmUnmapMid(kv, range_vpn, rest, lm) ==
    IF \E v \in RangeVpn(lm[2]) : FindPte(kv.pt, v) = {}
    THEN [kv EXCEPT !.panicked = TRUE,
                    !.ret = KvmCall("unmap_vm_area", <<>>, {}, "Panic", range_vpn)]
    ELSE [kv EXCEPT !.pt = KvmAreaUnmap(@, lm[2]),
                    !.areas = KvmPutBack(KvmPutBack(rest, lm[1]), SplitOff(lm[2], range_vpn[2])[2]),
                    !.ret = KvmCall("unmap_vm_area", <<>>, {}, "Ok", range_vpn)]
KvmUnmapArea(kv, range_vpn, area) ==
    KvmUnmapMid(kv, range_vpn, kv.areas \ {area}, SplitOff(area, range_vpn[1]))
UnmapVmAreaOf(kv, range_vpn) ==
    IF RmGet(kv.areas, StartAddr(range_vpn[1])) = {}
    THEN [kv EXCEPT !.ret = KvmCall("unmap_vm_area", <<>>, {}, "Ok", range_vpn)]
    ELSE KvmUnmapArea(kv, range_vpn, CHOOSE a \in RmGet(kv.areas, StartAddr(range_vpn[1])) : TRUE)

\* ------------------------------------------------------------ ELF loader
\* The program header table: a sequence of PT_LOAD headers
\* <<virtual_addr, virtual_addr + mem_size>>, the file bytes covering the
\* whole segment.
ElfAddrs == {k * HALF_PAGE : k \in 0 .. (2 * DataPages)}
ElfHeaders == {ph \in ElfAddrs \X ElfAddrs : ph[1] < ph[2]}
ElfTables == UNION {[1 .. n -> ElfHeaders] : n \in 1 .. ElfSegs}

\* from_elf, one PT_LOAD header: the Data area pushed with its data;
\* max_end_vpn = map_area.range_vpn().end
ElfArea(ph) == UserVmAreaNew(ph, "Data", {"U", "R", "W"})
ElfLoaded(s, ph, pushed) ==
    IF pushed.st # "ok" THEN pushed
    ELSE St("ok", [pushed.g EXCEPT !.spaces[s].heap_bottom_va = StartAddr(VaCeil(ph[2]))])
ElfSegment(g, s, ph) ==
    ElfLoaded(s, ph, PushArea(g, s, ElfArea(ph), Cardinality(RangeVpn(ElfArea(ph)))))

\* from_elf_file, one PT_LOAD header: the Data area with its file, offset
\* and len, pushed without data
ElfFileSegment(g, s, ph) ==
    ElfLoaded(s, ph, PushArea(g, s, [ElfArea(ph) EXCEPT !.file = TRUE, !.offset = VaFloor(ph[1]) * PAGE_SIZE,
                                                        !.len = ph[2] - VaFloor(ph[1]) * PAGE_SIZE], 0))

\* the loop over the program headers; heap_bottom_va = max_end_vpn.start_addr()
RECURSIVE ElfSegments(_, _, _, _, _)
ElfSegments(r, s, phdrs, i, file) ==
    IF r.st # "ok" \/ i > Len(phdrs) THEN r
    ELSE ElfSegments(IF file THEN ElfFileSegment(r.g, s, phdrs[i]) ELSE ElfSegment(r.g, s, phdrs[i]),
                     s, phdrs, i + 1, file)

\* UserVmSpace::from_elf and from_elf_file for a program header table
FromElfOf(g, s, phdrs, file) ==
    ElfTrap(ElfStack(ElfSegments(FromKernel(g, s), s, phdrs, 1, file), s), s)

Loader(phdrs, op, res, heap) == [phdrs |-> phdrs, op |-> op, res |-> res, heap_bottom_va |-> heap]
LoaderIdle == Loader(<<<<0, ELF_DATA_END>>>>, "none", "", 0)

\* ------------------------------------------------------------ LoongArch user VM space
\* UserVmArea::map: a fresh frame for every VPN of the range, mapped at
\* level Small
LaAreaMap(g, a) == AllocFrames(g, a, RangeVpn(a))

\* UserVmSpace::push_area (LoongArch): map, copy_data when data is given
\* (ndata page chunks), push
LaPushed(s, m, ndata) ==
    IF m.st = "panic" THEN St("panic", m.g)
    ELSE St("ok", [m.g EXCEPT
            !.spaces[s].pt = AreaMap(@, m.area),
            !.spaces[s].areas = @ \cup {[m.area EXCEPT !.k = m.area.range_va]},
            !.mem = [p \in PPNS |->
                IF \E v \in DOMAIN m.area.frames :
                      v < VaFloor(m.area.range_va[1]) + ndata /\ m.area.frames[v] = p
                THEN ElfPage ELSE @[p]]])
LaPushArea(g, s, area, ndata) == LaPushed(s, LaAreaMap(g, area), ndata)

\* UserVmSpace::from_elf (LoongArch) for the one-segment ELF
LaThen(r, s, area, ndata) == IF r.st # "ok" THEN r ELSE LaPushArea(r.g, s, area, ndata)
LaFromElf(g, s) ==
    LaThen(LaThen(LaThen(LaThen(FromKernel(g, s), s,
        UserVmAreaNew(<<0, ELF_DATA_END>>, "Data", {"U", "R", "W"}), DataPages), s,
        UserVmAreaNew(<<ELF_DATA_END, ELF_DATA_END>>, "Heap", {"R", "W", "U"}), 0), s,
        UserVmAreaNew(<<USER_STACK_BOTTOM, USER_STACK_TOP>>, "Stack", {"R", "W", "U"}), 0), s,
        TrapArea, 0)

\* the LoongArch machine after from_elf, the free frames holding old
LaVm(g, old) ==
    [g |-> [g EXCEPT !.mem = [p \in PPNS |-> IF p \in FreeFrames(g, {}) THEN old ELSE @[p]]],
     last |-> Call("from_elf", 1, 0, 0, "", "Ok", 0), panicked |-> FALSE]
LaVmNew == LaVm(LaFromElf(Boot, 1).g, BootPage)

\* ------------------------------------------------------------ boot
Booted == FromElf(Boot, 1).g
Init ==
    /\ spaces = Booted.spaces
    /\ cache = Booted.cache
    /\ mem = Booted.mem
    /\ panicked = FALSE
    /\ last = Call("from_elf", 1, 0, 0, "", "Ok", 0)
    /\ ops = 0
    /\ cow_done = {}
    /\ falloc = BitMapFrameAllocatorNew
    /\ slab = SlabAllocatorNew
    /\ inode = Ext4InodeNew
    /\ ptable = PageTableNew
    /\ lavm = LaVmNew
    /\ loader = LoaderIdle
    /\ kvm = KernVmSpaceNew
    /\ iter = VpnPageRangeIterNew(<<0, 0>>)
    /\ split = SplitIdle
    /\ cread = CacheReaderNew({})

\* ------------------------------------------------------------ page fault
\* PageFaultAccessType::can_access(map_perm): a write is allowed by W, or
\* by C standing in for the W that clone_cow took away.
CanAccess(acc, perm) ==
    CASE acc = "READ" -> "R" \in perm
      [] acc = "WRITE" -> "W" \in perm \/ "C" \in perm
      [] acc = "EXECUTE" -> "X" \in perm

\* The result of a call: Ok, Err or Panic, the value returned, the machine
Ret(res, ret, g) == [res |-> res, ret |-> ret, g |-> g]
Fault(res, g) == Ret(res, 0, g)

\* frames.insert(vpn, frame)
PutFrame(a, vpn, ppn) ==
    [a EXCEPT !.frames = [x \in DOMAIN @ \cup {vpn} |-> IF x = vpn THEN ppn ELSE @[x]]]

\* page_table.map(vpn, ppn, perm) and frames.insert(vpn, frame) in area a
\* of space s, the frame holding bytes
Installed(g, s, a, vpn, ppn, perm, bytes) ==
    [g EXCEPT !.spaces[s].areas = (@ \ {a}) \cup {PutFrame(a, vpn, ppn)},
              !.spaces[s].pt = PtMap(@, vpn, ppn, perm),
              !.mem[ppn] = bytes]

\* perm with W replaced by C when W is there (a cache page mapped for a read)
CowPerm(perm) == IF "W" \in perm THEN (perm \ {"W"}) \cup {"C"} ELSE perm
WritablePerm(perm) == (perm \ {"C"}) \cup {"W"}

\* a copy-on-write branch that makes the leaf writable before it asks for
\* the new frame
CowCopyEarly(g, s, a, vpn, n) ==
    IF n = None
    THEN Fault("Err", [g EXCEPT !.spaces[s].pt[vpn] =
                          PageTableEntryNew(a.frames[vpn], WritablePerm(a.map_perm), TRUE)])
    ELSE Fault("Ok", [g EXCEPT
            !.spaces[s].areas = (@ \ {a}) \cup {PutFrame(a, vpn, n)},
            !.spaces[s].pt[vpn] = PageTableEntryNew(n, WritablePerm(a.map_perm), TRUE),
            !.mem[n] = g.mem[a.frames[vpn]]])

\* handle_page_fault, the branch of a valid PTE with more than one owner
\* of the frame: a new frame n with a copy of the bytes
CowCopy(g, s, a, vpn, n) ==
    IF n = None THEN Fault("Err", g)
    ELSE Fault("Ok", [g EXCEPT
            !.spaces[s].areas = (@ \ {a}) \cup {PutFrame(a, vpn, n)},
            !.spaces[s].pt[vpn] = PageTableEntryNew(n, WritablePerm(a.map_perm), TRUE),
            !.mem[n] = g.mem[a.frames[vpn]]])

\* handle_page_fault, the branch of a valid PTE: copy-on-write
CowFault(g, s, a, vpn, acc) ==
    IF acc # "WRITE" \/ "C" \notin PteMapPerm(g.spaces[s].pt[vpn]) THEN Fault("Err", g)
    ELSE IF vpn \notin DOMAIN a.frames THEN Fault("Err", g)
    ELSE IF GetOwners(g, a.frames[vpn]) = 1
         THEN Fault("Ok", [g EXCEPT !.spaces[s].pt[vpn] =
                    PteSetFlags(@, PTEFlagsFrom(WritablePerm(PteMapPerm(@))) \cup {"V"})])
    ELSE CowCopy(g, s, a, vpn, FrameAlloc(g, {}))

\* a zero-filled fresh frame mapped with the area's permission
ZeroInto(g, s, a, vpn, n) ==
    IF n = None THEN Fault("Err", g)
    ELSE Fault("Ok", Installed(g, s, a, vpn, n, a.map_perm, ZeroPage))
ZeroFault(g, s, a, vpn) == ZeroInto(g, s, a, vpn, FrameAlloc(g, {}))

\* the first keep bytes of a page, zeros behind them
Prefix(bytes, keep) ==
    <<IF keep >= HALF_PAGE THEN bytes[1] ELSE 0, IF keep >= PAGE_SIZE THEN bytes[2] ELSE 0>>

\* a fresh frame n filled from the cache page pg (read with n held)
FileCopyInto(g, s, a, vpn, n, pg, keep) ==
    IF n = None THEN Fault("Err", g)
    ELSE IF pg.st = "panic" THEN Fault("Panic", pg.g)
    ELSE IF pg.st = "none" THEN Fault("Err", pg.g)
    ELSE Fault("Ok", Installed(pg.g, s, a, vpn, n, a.map_perm,
                               Prefix(pg.g.mem[pg.ppn], keep)))

\* the frame of the cache page pg itself mapped with perm; nopage: the
\* result when there is no such page
FileShare(s, a, vpn, pg, perm, nopage) ==
    IF pg.st = "panic" THEN Fault("Panic", pg.g)
    ELSE IF pg.st = "none" THEN Fault(nopage, pg.g)
    ELSE Fault("Ok", Installed(pg.g, s, a, vpn, pg.ppn, perm, pg.g.mem[pg.ppn]))

\* Data area with a file, the fault at file offset offset
DataFileAt(g, s, a, vpn, acc, area_offset, offset) ==
    IF offset % PAGE_SIZE # 0 THEN Fault("Panic", g)
    ELSE IF area_offset >= a.len THEN ZeroFault(g, s, a, vpn)
    ELSE IF a.len - area_offset < PAGE_SIZE
         THEN FileCopyInto(g, s, a, vpn, FrameAlloc(g, {}),
                           ReadPageAt(g, offset, {FrameAlloc(g, {})}), a.len - area_offset)
    ELSE IF acc = "WRITE"
         THEN FileCopyInto(g, s, a, vpn, FrameAlloc(g, {}),
                           ReadPageAt(g, offset, {FrameAlloc(g, {})}), PAGE_SIZE)
    ELSE FileShare(s, a, vpn, ReadPageAt(g, offset, {}), CowPerm(a.map_perm), "Err")
DataFileFault(g, s, a, vpn, acc) ==
    DataFileAt(g, s, a, vpn, acc, (vpn - VaFloor(a.range_va[1])) * PAGE_SIZE,
               a.offset + (vpn - VaFloor(a.range_va[1])) * PAGE_SIZE)

\* private file mapping, write: the page is read, then a frame allocated
PrivateInto(s, a, vpn, pg, n) ==
    IF n = None THEN Fault("Panic", pg.g)
    ELSE Fault("Ok", Installed(pg.g, s, a, vpn, n, a.map_perm, pg.g.mem[pg.ppn]))
PrivateCopy(s, a, vpn, pg) ==
    IF pg.st # "some" THEN Fault("Panic", pg.g)
    ELSE PrivateInto(s, a, vpn, pg, FrameAlloc(pg.g, {}))

\* Mmap area
MmapFileAt(g, s, a, vpn, acc, offset) ==
    IF ~a.file \/ offset % PAGE_SIZE # 0 THEN Fault("Panic", g)
    ELSE IF "MAP_SHARED" \in a.mmap_flags
         THEN FileShare(s, a, vpn, ReadPageAt(g, offset, {}), a.map_perm, "Panic")
    ELSE IF acc = "WRITE" THEN PrivateCopy(s, a, vpn, ReadPageAt(g, offset, {}))
    ELSE FileShare(s, a, vpn, ReadPageAt(g, offset, {}), CowPerm(a.map_perm), "Panic")
MmapFault(g, s, a, vpn, acc) ==
    IF "MAP_ANONYMOUS" \notin a.mmap_flags
    THEN MmapFileAt(g, s, a, vpn, acc, a.offset + (vpn - VaFloor(a.range_va[1])) * PAGE_SIZE)
    ELSE IF "MAP_PRIVATE" \in a.mmap_flags THEN
        IF "MAP_SHARED" \in a.mmap_flags THEN Fault("Panic", g)
        ELSE ZeroFault(g, s, a, vpn)
    ELSE Fault("Ok", g)

\* UserVmArea::handle_page_fault
AreaHandlePageFault(g, s, a, vpn, acc) ==
    IF ~CanAccess(acc, a.map_perm) THEN Fault("Err", g)
    ELSE IF FindPte(g.spaces[s].pt, vpn) # {} THEN CowFault(g, s, a, vpn, acc)
    ELSE CASE a.vma_type = "TrapContext" -> Fault("Err", g)
           [] a.vma_type = "Data" ->
                IF a.file THEN DataFileFault(g, s, a, vpn, acc) ELSE ZeroFault(g, s, a, vpn)
           [] a.vma_type \in {"Stack", "Heap"} -> ZeroFault(g, s, a, vpn)
           [] a.vma_type = "Mmap" -> MmapFault(g, s, a, vpn, acc)
           [] a.vma_type = "Shm" -> Fault("Panic", g)

\* UserVmSpace::handle_page_fault
SpaceHandlePageFault(g, s, va, acc) ==
    IF RmGet(g.spaces[s].areas, va) = {} THEN Fault("Err", g)
    ELSE AreaHandlePageFault(g, s, CHOOSE a \in RmGet(g.spaces[s].areas, va) : TRUE,
                             VaFloor(va), acc)

\* ------------------------------------------------------------ brk
\* UserVmSpace::find_heap
FindHeap(areas, heap_bottom_va) == {a \in RmGet(areas, heap_bottom_va) : a.vma_type = "Heap"}

\* reset_heap_break after extend_back: heap is the area find_heap gives
\* in the map grown; its range is set to the raw new_brk
HeapExtended(g, s, new_brk, grown, heap) ==
    Ret("Ok", new_brk,
        [g EXCEPT !.spaces[s].areas =
            (grown \ {heap}) \cup {[heap EXCEPT !.range_va = <<@[1], new_brk>>]}])

\* reset_heap_break after reduce_back: parts is heap.split_off(ceil(new_brk)),
\* the right part is unmapped and dropped
HeapReduced(g, s, new_brk, grown, heap, parts) ==
    IF AreaUnmapPanics(g.spaces[s].pt, parts[2]) THEN Ret("Panic", 0, g)
    ELSE Ret("Ok", new_brk,
             [g EXCEPT !.spaces[s].areas = (grown \ {heap}) \cup {parts[1]},
                       !.spaces[s].pt = AreaUnmap(@, parts[2])])

\* the second find_heap().unwrap(), on the map with the moved end
HeapMoved(g, s, new_brk, grown, found, extend) ==
    IF found = {} THEN Ret("Panic", 0, g)
    ELSE IF extend THEN HeapExtended(g, s, new_brk, grown, CHOOSE a \in found : TRUE)
    ELSE HeapReduced(g, s, new_brk, grown, CHOOSE a \in found : TRUE,
                     SplitOff(CHOOSE a \in found : TRUE, VaCeil(new_brk)))
HeapSetEnd(g, s, new_brk, grown, extend) ==
    HeapMoved(g, s, new_brk, grown, FindHeap(grown, g.spaces[s].heap_bottom_va), extend)

\* reset_heap_break once the heap area with range range is known
AdjustHeap(g, s, new_brk, range) ==
    IF new_brk >= range[2] THEN
        IF ~RmCanExtendBack(g.spaces[s].areas, <<range[1], new_brk>>) THEN Ret("Ok", range[2], g)
        ELSE HeapSetEnd(g, s, new_brk, RmSetEnd(g.spaces[s].areas, <<range[1], new_brk>>), TRUE)
    ELSE IF new_brk > range[1] THEN
        IF ~RmCanReduceBack(g.spaces[s].areas, <<range[1], new_brk>>) THEN Ret("Ok", range[2], g)
        ELSE HeapSetEnd(g, s, new_brk, RmSetEnd(g.spaces[s].areas, <<range[1], new_brk>>), FALSE)
    ELSE Ret("Ok", range[2], g)
AdjustFound(g, s, new_brk, found) ==
    AdjustHeap(g, s, new_brk, (CHOOSE a \in found : TRUE).range_va)

\* the heap area is made when there is none and new_brk is above the base
HeapMade(g, s, new_brk, made) ==
    IF made.st = "panic" THEN Ret("Panic", 0, g)
    ELSE AdjustFound(made.g, s, new_brk,
                     FindHeap(made.g.spaces[s].areas, made.g.spaces[s].heap_bottom_va))

\* UserVmSpace::reset_heap_break
ResetHeapBreakOf(g, s, new_brk) ==
    IF FindHeap(g.spaces[s].areas, g.spaces[s].heap_bottom_va) # {}
    THEN AdjustFound(g, s, new_brk, FindHeap(g.spaces[s].areas, g.spaces[s].heap_bottom_va))
    ELSE IF new_brk > g.spaces[s].heap_bottom_va
    THEN HeapMade(g, s, new_brk,
                  PushArea(g, s, UserVmAreaNew(<<g.spaces[s].heap_bottom_va, new_brk>>, "Heap",
                                               {"R", "W", "U"}), 0))
    ELSE Ret("Ok", g.spaces[s].heap_bottom_va, g)

\* ------------------------------------------------------------ mmap
ENOMEM == 0 - 12
EFAULT == 0 - 14

\* the area of the eager loop after one page: frames.insert, and C added
\* to map_perm for a private mapping
EagerArea(vma, vpn, ppn) ==
    [PutFrame(vma, vpn, ppn) EXCEPT
        !.map_perm = IF "MAP_PRIVATE" \in vma.mmap_flags THEN @ \cup {"C"} ELSE @]
EagerPerm(vma, perm) ==
    IF "MAP_PRIVATE" \in vma.mmap_flags THEN (perm \ {"W"}) \cup {"C"} ELSE perm

\* the eager loop of alloc_mmap_area: one cache page per step until stop
\* or the end of the file
RECURSIVE EagerPages(_, _, _, _, _, _, _)
EagerStep(s, vma, vpn, page_offset, stop, perm, pg) ==
    IF pg.st = "none" THEN Built("ok", pg.g, vma)
    ELSE IF pg.st = "panic" THEN Built("panic", pg.g, vma)
    ELSE EagerPages([pg.g EXCEPT !.spaces[s].pt = PtMap(@, vpn, pg.ppn, EagerPerm(vma, perm))],
                    s, EagerArea(vma, vpn, pg.ppn), vpn + 1, page_offset + PAGE_SIZE, stop, perm)
EagerPages(g, s, vma, vpn, page_offset, stop, perm) ==
    IF page_offset >= stop THEN Built("ok", g, vma)
    ELSE EagerStep(s, vma, vpn, page_offset, stop, perm, ReadPageAt(g, page_offset, {}))

MmapDone(start, pushed) ==
    IF pushed.st = "panic" THEN Ret("Panic", 0, pushed.g) ELSE Ret("Ok", start, pushed.g)
MmapPush(s, start, eager) ==
    IF eager.st = "panic" THEN Ret("Panic", 0, eager.g)
    ELSE MmapDone(start, PushArea(eager.g, s, eager.area, 0))
MmapAt(g, s, range, len, perm, flags, offset) ==
    MmapPush(s, range[1],
             EagerPages(g, s, UserVmAreaNewMmap(range, perm, flags, TRUE, offset, len),
                        VaFloor(range[1]), offset,
                        offset + (IF len < USER_FILE_PER_PAGES * PAGE_SIZE THEN len
                                  ELSE USER_FILE_PER_PAGES * PAGE_SIZE),
                        perm))
MmapFound(g, s, found, len, perm, flags, offset) ==
    IF found = {} THEN Ret("Err", ENOMEM, g)
    ELSE MmapAt(g, s, CHOOSE r \in found : TRUE, len, perm, flags, offset)

\* UserVmSpace::alloc_mmap_area
AllocMmapAreaOf(g, s, va, len, perm, flags, offset) ==
    IF "MAP_FIXED" \in flags /\ RmIsRangeFree(g.spaces[s].areas, <<va, va + len>>)
    THEN MmapAt(g, s, <<va, va + len>>, len, perm, flags, offset)
    ELSE MmapFound(g, s, RmFindFreeRange(g.spaces[s].areas, <<USER_FILE_BEG, USER_FILE_END>>, len),
                   len, perm, flags, offset)

AnonAt(g, s, range, len, perm, flags, is_share) ==
    MmapDone(range[1],
             PushArea(g, s, IF is_share THEN UserVmAreaNew(range, "Shm", perm)
                            ELSE UserVmAreaNewMmap(range, perm, flags, FALSE, 0, len), 0))
AnonFound(g, s, found, len, perm, flags, is_share) ==
    IF found = {} THEN Ret("Err", ENOMEM, g)
    ELSE AnonAt(g, s, CHOOSE r \in found : TRUE, len, perm, flags, is_share)

\* UserVmSpace::alloc_anon_area
AllocAnonAreaOf(g, s, va, len, perm, flags, is_share) ==
    IF "MAP_FIXED" \in flags THEN AnonAt(g, s, <<va, va + len>>, len, perm, flags, is_share)
    ELSE AnonFound(g, s, RmFindFreeRange(g.spaces[s].areas, <<USER_SHARE_BEG, USER_SHARE_END>>, len),
                   len, perm, flags, is_share)

\* ------------------------------------------------------------ munmap
\* RangeMap::force_remove_one(range) takes out the node that starts at
\* range.start; whether it insists on the node's end being range.end is
\* the choice strict.
ForceRemovePanics(areas, r, strict) ==
    \/ ~\E a \in areas : a.k[1] = r[1]
    \/ strict /\ \E a \in areas : a.k[1] = r[1] /\ a.k[2] # r[2]

\* the try_insert of the right part, when it is not empty
UnmapRight(g, s, withLeft, right) ==
    IF RangeEmpty(right.range_va) THEN Ret("Ok", 0, [g EXCEPT !.spaces[s].areas = withLeft])
    ELSE IF ~RmIsRangeFree(withLeft, right.range_va)
         THEN Ret("Err", EFAULT, [g EXCEPT !.spaces[s].areas = withLeft])
    ELSE Ret("Ok", 0, [g EXCEPT !.spaces[s].areas = RmInsert(withLeft, right.range_va, right)])

\* the try_insert of the left part, when it is not empty
UnmapLeft(g, s, rest, left, right) ==
    IF RangeEmpty(left.range_va) THEN UnmapRight(g, s, rest, right)
    ELSE IF ~RmIsRangeFree(rest, left.range_va)
         THEN Ret("Err", EFAULT, [g EXCEPT !.spaces[s].areas = rest])
    ELSE UnmapRight(g, s, RmInsert(rest, left.range_va, left), right)

\* lm is left.split_off(floor(va)): mid.unmap(page_table) runs on lm[2]
\* before right is split off mid at p
UnmapMid(g, s, p, rest, lm) ==
    IF AreaUnmapPanics(g.spaces[s].pt, lm[2]) THEN Ret("Panic", 0, g)
    ELSE UnmapLeft([g EXCEPT !.spaces[s].pt = AreaUnmap(@, lm[2])], s, rest,
                   lm[1], SplitOff(lm[2], p)[2])

\* unmap of the area that holds va
UnmapArea(g, s, va, len, strict, area) ==
    IF ForceRemovePanics(g.spaces[s].areas, area.range_va, strict) THEN Ret("Panic", 0, g)
    ELSE UnmapMid(g, s, VaCeil(va + len),
                  {a \in g.spaces[s].areas : a.k[1] # area.range_va[1]},
                  SplitOff(area, VaFloor(va)))

\* UserVmSpace::unmap
UnmapOf(g, s, va, len, strict) ==
    IF RmGet(g.spaces[s].areas, va) = {} THEN Ret("Ok", 0, g)
    ELSE UnmapArea(g, s, va, len, strict, CHOOSE a \in RmGet(g.spaces[s].areas, va) : TRUE)

\* ------------------------------------------------------------ fork
\* the set_flags loop of clone_cow over the keys of frames
CowFlags(pt, a, perm) ==
    [v \in VPNS |-> IF v \in DOMAIN a.frames
                    THEN PteSetFlags(pt[v], PTEFlagsFrom(perm) \cup {"V"})
                    ELSE pt[v]]

\* the permission clone_cow leaves in the area: W replaced by C
ClonePerm(perm) == IF "W" \in perm THEN (perm \cup {"C"}) \ {"W"} ELSE perm

\* UserVmArea::clone_cow: st is "ok", "err" (TrapContext) or "panic"
\* (find_pte(vpn).unwrap() on a frame without leaf); area is self after
\* the call, the clone shares its frames and has the same fields.
CloneCow(pt, a) ==
    IF a.vma_type = "TrapContext" THEN [st |-> "err", pt |-> pt, area |-> a]
    ELSE IF ("W" \in a.map_perm \/ "C" \in a.map_perm) /\ AreaUnmapPanics(pt, a)
         THEN [st |-> "panic", pt |-> pt, area |-> a]
    ELSE [st |-> "ok", area |-> [a EXCEPT !.map_perm = ClonePerm(@)],
          pt |-> IF "W" \in a.map_perm \/ "C" \in a.map_perm
                 THEN CowFlags(pt, a, ClonePerm(a.map_perm)) ELSE pt]

\* impl Clone for UserVmArea without the copy of the bytes
CloneDoneBlank(g, a, new) == Built("ok", g, new)

\* impl Clone for UserVmArea: a new frame with a copy of the bytes for
\* every frame of the area
CloneDone(g, a, new) ==
    Built("ok",
          [g EXCEPT !.mem = [p \in PPNS |->
              IF \E v \in DOMAIN a.frames : new.frames[v] = p
              THEN @[a.frames[CHOOSE v \in DOMAIN a.frames : new.frames[v] = p]]
              ELSE @[p]]],
          new)
CloneWith(g, a, free) ==
    IF Cardinality(free) < Cardinality(DOMAIN a.frames) THEN Built("panic", g, a)
    ELSE CloneDone(g, a, WithFrames([a EXCEPT !.frames = EmptyFrames], DOMAIN a.frames, free))
AreaClone(g, a) == CloneWith(g, a, FreeFrames(g, {}))

\* the loop of from_existed over the areas of the parent, in key order
RECURSIVE CloneAreas(_, _, _, _)
CloneNext(p, c, rest, pushed) ==
    IF pushed.st = "panic" THEN St("panic", pushed.g) ELSE CloneAreas(pushed.g, p, c, rest)
CloneDeep(p, c, rest, deep) ==
    IF deep.st = "panic" THEN St("panic", deep.g)
    ELSE CloneNext(p, c, rest, PushArea(deep.g, c, deep.area, 0))
CloneVia(g, p, c, rest, a, cow) ==
    IF cow.st = "panic" THEN St("panic", g)
    ELSE IF cow.st = "err" THEN CloneDeep(p, c, rest, AreaClone(g, a))
    ELSE CloneNext(p, c, rest,
                   PushArea([g EXCEPT !.spaces[p].pt = cow.pt,
                                      !.spaces[p].areas = (@ \ {a}) \cup {cow.area}],
                            c, cow.area, 0))
CloneOne(g, p, c, todo, a) ==
    CloneVia(g, p, c, todo \ {a}, a, CloneCow(g.spaces[p].pt, a))
CloneAreas(g, p, c, todo) ==
    IF todo = {} THEN St("ok", g)
    ELSE CloneOne(g, p, c, todo, CHOOSE x \in todo : \A y \in todo : x.k[1] <= y.k[1])

\* UserVmSpace::from_existed
ForkDone(g, c, r) == IF r.st = "panic" THEN Ret("Panic", 0, g) ELSE Ret("Ok", c, r.g)
ForkInto(g, p, c, r0) ==
    IF r0.st = "panic" THEN Ret("Panic", 0, g)
    ELSE ForkDone(g, c, CloneAreas([r0.g EXCEPT !.spaces[c].heap_bottom_va =
                                        g.spaces[p].heap_bottom_va],
                                   p, c, g.spaces[p].areas))
FromExistedOf(g, p, c) == ForkInto(g, p, c, FromKernel(g, c))

\* ------------------------------------------------------------ LoongArch fork
\* impl Clone for UserVmArea (LoongArch): the same area without frames
LaClone(a) == [a EXCEPT !.frames = EmptyFrames]

\* a from_existed whose Err branch copies no page
LaCopyNone(g, p, c, a) == St("ok", g)

\* from_existed, the Err branch after push_area: every page of the
\* parent's area copied to the frame the child translates the VPN to
LaCopyPages(g, p, c, a) ==
    IF \E v \in DOMAIN a.frames :
          TranslateVpn(g.spaces[p].pt, v) = None \/ TranslateVpn(g.spaces[c].pt, v) = None
    THEN St("panic", g)
    ELSE St("ok", [g EXCEPT !.mem = [x \in PPNS |->
            IF \E v \in DOMAIN a.frames : g.spaces[c].pt[v].ppn = x
            THEN @[g.spaces[p].pt[CHOOSE v \in DOMAIN a.frames : g.spaces[c].pt[v].ppn = x].ppn]
            ELSE @[x]]])

\* UserVmSpace::from_existed (LoongArch): clone_cow returns Err(clone) for
\* every area
RECURSIVE LaCloneAreas(_, _, _, _)
LaCloneNext(p, c, rest, copied) ==
    IF copied.st = "panic" THEN copied ELSE LaCloneAreas(copied.g, p, c, rest)
LaCloneCopy(p, c, rest, a, pushed) ==
    IF pushed.st = "panic" THEN pushed
    ELSE LaCloneNext(p, c, rest, LaCopyPages(pushed.g, p, c, a))
LaCloneOne(g, p, c, todo, a) ==
    LaCloneCopy(p, c, todo \ {a}, a, LaPushArea(g, c, LaClone(a), 0))
LaCloneAreas(g, p, c, todo) ==
    IF todo = {} THEN St("ok", g)
    ELSE LaCloneOne(g, p, c, todo, CHOOSE x \in todo : \A y \in todo : x.k[1] <= y.k[1])
LaForkInto(g, p, c, r0) ==
    IF r0.st = "panic" THEN Ret("Panic", 0, g)
    ELSE ForkDone(g, c, LaCloneAreas(r0.g, p, c, g.spaces[p].areas))
LaFromExistedOf(g, p, c) == LaForkInto(g, p, c, FromKernel(g, c))

\* ------------------------------------------------------------ actions
Now == Machine(spaces, cache, mem)
Live(s) == spaces[s].live
CanCall == ~panicked

\* The call op returns r: the machine goes to r.g; a panic halts the
\* kernel where it stood.
Finish(op, s, va, len, acc, r) ==
    /\ ops' = ops + 1
    /\ UNCHANGED <<falloc, slab, inode, aux_vars>>
    /\ last' = Call(op, s, va, len, acc, r.res, r.ret)
    /\ IF r.res = "Panic"
       THEN /\ panicked' = TRUE
            /\ UNCHANGED <<spaces, cache, mem>>
       ELSE /\ panicked' = FALSE
            /\ spaces' = r.g.spaces
            /\ cache' = r.g.cache
            /\ mem' = r.g.mem

\* the call found a valid leaf with C, was a write, and returned Ok
CowResolved(s, vpn, acc, r) ==
    /\ acc = "WRITE" /\ r.res = "Ok"
    /\ PteIsValid(spaces[s].pt[vpn]) /\ "C" \in PteMapPerm(spaces[s].pt[vpn])
FaultDone(s, va, acc, r) ==
    /\ Finish("handle_page_fault", s, va, 0, acc, r)
    /\ cow_done' = IF CowResolved(s, VaFloor(va), acc, r)
                   THEN cow_done \cup {<<s, VaFloor(va)>>} ELSE cow_done
HandlePageFault(s, va, acc) ==
    /\ CanCall /\ Live(s)
    /\ FaultDone(s, va, acc, SpaceHandlePageFault(Now, s, va, acc))

\* A store of user code through its page table: the MMU lets it through
\* when the leaf is valid, user-accessible and writable.
MmuCanWrite(pte) == PteIsValid(pte) /\ {"U", "W"} \subseteq PteMapPerm(pte)
UserWrite(s, vpn, val) ==
    /\ CanCall /\ Live(s)
    /\ MmuCanWrite(spaces[s].pt[vpn])
    /\ mem' = [mem EXCEPT ![spaces[s].pt[vpn].ppn] = <<val + s, @[2]>>]
    /\ ops' = ops + 1
    /\ last' = Call("store", s, StartAddr(vpn), 0, "WRITE", "Ok", 0)
    /\ UNCHANGED <<spaces, cache, panicked, cow_done, falloc, slab, inode, aux_vars>>

ResetHeapBreak(s, new_brk) ==
    /\ CanCall /\ Live(s)
    /\ Finish("reset_heap_break", s, new_brk, 0, "", ResetHeapBreakOf(Now, s, new_brk))
    /\ UNCHANGED cow_done

Unmap(s, va, len, strict) ==
    /\ CanCall /\ Live(s)
    /\ strict \/ \E a \in RmGet(spaces[s].areas, va) : a.k # a.range_va
    /\ Finish("unmap", s, va, len, "", UnmapOf(Now, s, va, len, strict))
    /\ UNCHANGED cow_done

\* the name of a permission and flag set, for the record of the call
Tag(set) ==
    (IF "MAP_FIXED" \in set THEN "F" ELSE "") \o
    (IF "MAP_SHARED" \in set THEN "S" ELSE "") \o
    (IF "MAP_PRIVATE" \in set THEN "P" ELSE "") \o
    (IF "W" \in set THEN "W" ELSE "")

AllocMmapArea(s, va, len, perm, flags, offset) ==
    /\ CanCall /\ Live(s)
    /\ Finish("alloc_mmap_area", s, va, len + offset \div PAGE_SIZE, Tag(perm \cup flags),
              AllocMmapAreaOf(Now, s, va, len, perm, flags, offset))
    /\ UNCHANGED cow_done

AllocAnonArea(s, va, len, perm, flags, is_share) ==
    /\ CanCall /\ Live(s)
    /\ Finish(IF is_share THEN "alloc_shm_area" ELSE "alloc_anon_area", s, va, len,
              Tag(perm \cup flags), AllocAnonAreaOf(Now, s, va, len, perm, flags, is_share))
    /\ UNCHANGED cow_done

FromExisted(p, c) ==
    /\ CanCall /\ Live(p) /\ ~Live(c)
    /\ Finish("from_existed", p, 0, 0, "", FromExistedOf(Now, p, c))
    /\ UNCHANGED cow_done

\* ------------------------------------------------------------ the system
\* Calls are made with these arguments.
InPageOffsets == {0, HALF_PAGE}
Addrs == {StartAddr(v) + o : v \in VPNS, o \in InPageOffsets}
PageStarts == {StartAddr(v) : v \in VPNS}
AccessTypes == {"READ", "WRITE"}
UserVals == {20}
\* brk values: from the heap base up into the share window
BrkVals == {ELF_DATA_END + k * HALF_PAGE : k \in 0 .. (2 * HeapRoom + 1)}
Lens == {PAGE_SIZE, 2 * PAGE_SIZE}
MmapLens == {PAGE_SIZE, 2 * PAGE_SIZE}
RW == {"R", "W", "U"}
\* <<va, flags>>: no hint, MAP_FIXED at the second page of the file
\* window, MAP_FIXED on the stack (never free)
FileArgs == {<<0, {"MAP_PRIVATE"}>>, <<0, {"MAP_SHARED"}>>,
             <<USER_FILE_BEG + PAGE_SIZE, {"MAP_PRIVATE", "MAP_FIXED"}>>,
             <<USER_STACK_BOTTOM, {"MAP_SHARED", "MAP_FIXED"}>>}
AnonArgs == {<<0, {"MAP_PRIVATE", "MAP_ANONYMOUS"}>>,
             <<USER_SHARE_BEG, {"MAP_PRIVATE", "MAP_ANONYMOUS", "MAP_FIXED"}>>,
             <<USER_STACK_BOTTOM, {"MAP_PRIVATE", "MAP_ANONYMOUS", "MAP_FIXED"}>>}
Within(n) == ops < n

Next ==
    \/ \E s \in SpaceIds, va \in PageStarts, acc \in AccessTypes :
          Within(MaxOps) /\ HandlePageFault(s, va, acc)
    \/ \E s \in SpaceIds, vpn \in VPNS, val \in UserVals :
          Within(MaxOps) /\ UserWrite(s, vpn, val)
    \/ \E s \in SpaceIds, b \in BrkVals :
          Within(MaxOps) /\ ResetHeapBreak(s, b)
    \/ \E s \in SpaceIds, va \in Addrs, len \in Lens, strict \in BOOLEAN :
          Within(MaxOps) /\ Unmap(s, va, len, strict)
    \/ \E s \in SpaceIds, a \in FileArgs, len \in MmapLens, o \in PageOffsets :
          Within(MaxOps) /\ AllocMmapArea(s, a[1], len, RW, a[2], o)
    \/ \E s \in SpaceIds, a \in AnonArgs, sh \in BOOLEAN :
          Within(MaxOps) /\ AllocAnonArea(s, a[1], PAGE_SIZE, RW, a[2], sh)
    \/ \E p \in SpaceIds, c \in SpaceIds :
          Within(MaxOps) /\ FromExisted(p, c)

Spec == Init /\ [][Next]_vars

\* Fork, page faults and stores only, one call deeper.
CowOps == 4
NextCow ==
    \/ \E s \in SpaceIds, va \in PageStarts, acc \in AccessTypes :
          Within(CowOps) /\ HandlePageFault(s, va, acc)
    \/ \E s \in SpaceIds, vpn \in VPNS, val \in UserVals :
          Within(CowOps) /\ UserWrite(s, vpn, val)
    \/ \E p \in SpaceIds, c \in SpaceIds :
          Within(CowOps) /\ FromExisted(p, c)
SpecCow == Init /\ [][NextCow]_vars

\* brk, page faults, stores and fork only, one call deeper.
BrkOps == 4
NextBrk ==
    \/ \E s \in SpaceIds, va \in PageStarts, acc \in AccessTypes :
          Within(BrkOps) /\ HandlePageFault(s, va, acc)
    \/ \E s \in SpaceIds, vpn \in VPNS, val \in UserVals :
          Within(BrkOps) /\ UserWrite(s, vpn, val)
    \/ \E s \in SpaceIds, b \in BrkVals :
          Within(BrkOps) /\ ResetHeapBreak(s, b)
    \/ \E p \in SpaceIds, c \in SpaceIds :
          Within(BrkOps) /\ FromExisted(p, c)
SpecBrk == Init /\ [][NextBrk]_vars


\* ------------------------------------------------------------ file-backed areas
\* UserVmSpace::from_elf_file for an ELF with one PT_LOAD segment at file
\* offset 0 whose file_size is the file size and whose mem_size is
\* DataPages pages: the Data area keeps the file, the offset and the
\* length, and no page of it is loaded; stack and trap context as in
\* from_elf.
ElfFileArea ==
    [UserVmAreaNew(<<0, ELF_DATA_END>>, "Data", {"U", "R", "W"}) EXCEPT
        !.file = TRUE, !.offset = 0, !.len = FileSize]
ElfFileData(r, s) == IF r.st # "ok" THEN r ELSE PushArea(r.g, s, ElfFileArea, 0)
FromElfFile(g, s) == ElfTrap(ElfStack(ElfHeap(ElfFileData(FromKernel(g, s), s), s), s), s)
BootedFile == FromElfFile(Boot, 1).g
InitFile ==
    /\ spaces = BootedFile.spaces
    /\ cache = BootedFile.cache
    /\ mem = BootedFile.mem
    /\ panicked = FALSE
    /\ last = Call("from_elf_file", 1, 0, 0, "", "Ok", 0)
    /\ ops = 0
    /\ cow_done = {}
    /\ falloc = BitMapFrameAllocatorNew
    /\ slab = SlabAllocatorNew
    /\ inode = Ext4InodeNew
    /\ ptable = PageTableNew
    /\ lavm = LaVmNew
    /\ loader = LoaderIdle
    /\ kvm = KernVmSpaceNew
    /\ iter = VpnPageRangeIterNew(<<0, 0>>)
    /\ split = SplitIdle
    /\ cread = CacheReaderNew({})
\* Page faults and file mappings whose length ends inside a page.
PartLens == {HALF_PAGE, PAGE_SIZE + HALF_PAGE}
NextFile ==
    \/ \E s \in SpaceIds, va \in PageStarts, acc \in AccessTypes :
          Within(FileOps) /\ HandlePageFault(s, va, acc)
    \/ \E s \in SpaceIds, a \in FileArgs, len \in PartLens, o \in PageOffsets :
          Within(FileOps) /\ AllocMmapArea(s, a[1], len, RW, a[2], o)
SpecFile == InitFile /\ [][NextFile]_vars

\* Private file mappings only, with page faults and stores.
PrivArgs == {a \in FileArgs : "MAP_PRIVATE" \in a[2]}
NextPriv ==
    \/ \E s \in SpaceIds, va \in PageStarts, acc \in AccessTypes :
          Within(PrivOps) /\ HandlePageFault(s, va, acc)
    \/ \E s \in SpaceIds, vpn \in VPNS, val \in UserVals :
          Within(PrivOps) /\ UserWrite(s, vpn, val)
    \/ \E s \in SpaceIds, a \in PrivArgs, len \in MmapLens, o \in PageOffsets :
          Within(PrivOps) /\ AllocMmapArea(s, a[1], len, RW, a[2], o)
SpecPriv == Init /\ [][NextPriv]_vars

\* ------------------------------------------------------------ LoongArch calls
LaLeave ==
    UNCHANGED <<spaces, cache, mem, panicked, last, cow_done, falloc, slab, inode, ptable, loader, kvm, iter, split, cread>>
LaFinish(op, s, va, r) ==
    /\ ops' = ops + 1
    /\ lavm' = [g |-> IF r.res = "Panic" THEN lavm.g ELSE r.g,
                last |-> Call(op, s, va, 0, "", r.res, r.ret),
                panicked |-> r.res = "Panic"]
    /\ LaLeave
LaFromExisted(p, c) ==
    /\ ~lavm.panicked /\ lavm.g.spaces[p].live /\ ~lavm.g.spaces[c].live
    /\ LaFinish("from_existed", p, 0, LaFromExistedOf(lavm.g, p, c))
\* a store of user code through the page table of space s
LaUserWrite(s, vpn, val) ==
    /\ ~lavm.panicked /\ lavm.g.spaces[s].live
    /\ MmuCanWrite(lavm.g.spaces[s].pt[vpn])
    /\ LaFinish("store", s, StartAddr(vpn),
                Ret("Ok", 0, [lavm.g EXCEPT !.mem[lavm.g.spaces[s].pt[vpn].ppn] = <<val + s, @[2]>>]))

\* Fork, page faults and stores, the free frames holding any bytes.
InitFork ==
    /\ spaces = Booted.spaces
    /\ cache = Booted.cache
    /\ mem \in {[p \in PPNS |-> IF p \in FreeFrames(Booted, {}) THEN old ELSE Booted.mem[p]] :
                  old \in {BootPage, StalePage}}
    /\ panicked = FALSE
    /\ last = Call("from_elf", 1, 0, 0, "", "Ok", 0)
    /\ ops = 0
    /\ cow_done = {}
    /\ falloc = BitMapFrameAllocatorNew
    /\ slab = SlabAllocatorNew
    /\ inode = Ext4InodeNew
    /\ ptable = PageTableNew
    /\ lavm \in {LaVm(LaFromElf(Boot, 1).g, old) : old \in {BootPage, StalePage}}
    /\ loader = LoaderIdle
    /\ kvm = KernVmSpaceNew
    /\ iter = VpnPageRangeIterNew(<<0, 0>>)
    /\ split = SplitIdle
    /\ cread = CacheReaderNew({})
NextFork ==
    \/ \E s \in SpaceIds, va \in PageStarts, acc \in AccessTypes :
          Within(ForkOps) /\ HandlePageFault(s, va, acc)
    \/ \E s \in SpaceIds, vpn \in VPNS, val \in UserVals :
          Within(ForkOps) /\ UserWrite(s, vpn, val)
    \/ \E p \in SpaceIds, c \in SpaceIds :
          Within(ForkOps) /\ FromExisted(p, c)
    \/ \E s \in SpaceIds, vpn \in VPNS, val \in UserVals :
          Within(ForkOps) /\ LaUserWrite(s, vpn, val)
    \/ \E p \in SpaceIds, c \in SpaceIds :
          Within(ForkOps) /\ LaFromExisted(p, c)
SpecFork == InitFork /\ [][NextFork]_vars

\* ------------------------------------------------------------ frame allocator calls
\* FrameAllocator::alloc takes FRAME_ALLOCATOR's lock twice: once to take
\* the bits, once to read range.start.  Each critical section is one step.
FaLeave == UNCHANGED <<vm_vars, slab, inode, aux_vars>>
FaNone(h, cnt) == [h |-> h, cnt |-> cnt, r |-> <<>>]
FaSome(h, cnt, start) == [h |-> h, cnt |-> cnt, r |-> <<start, start + cnt>>]
FaAllocBits(h, cnt, i) ==
    falloc' = IF i = None
              THEN [falloc EXCEPT !.ret = FaNone(h, cnt)]
              ELSE [falloc EXCEPT !.free = AllocTake(@, i, cnt),
                                  !.hart[h] = [pc |-> "alloc", start |-> i, cnt |-> cnt]]
FaAllocLock(h, cnt) ==
    /\ falloc.hart[h].pc = "idle"
    /\ FaAllocBits(h, cnt, AllocContiguous(falloc.free, cnt))
    /\ FaLeave
FaAllocReturn(h, cnt, start) ==
    falloc' = [falloc EXCEPT !.hart[h] = HartIdle,
                             !.out = Append(@, FaSome(h, cnt, start).r),
                             !.ret = FaSome(h, cnt, start)]
FaAllocBase(h) ==
    /\ falloc.hart[h].pc = "alloc"
    /\ FaAllocReturn(h, falloc.hart[h].cnt, AllocStart(falloc, falloc.hart[h].start))
    /\ FaLeave

\* FrameAllocator::dealloc of the k-th range out (the drop of its
\* FrameTracker): the first lock reads range.start, the second sets the bits.
Without(seq, k) == [i \in 1 .. (Len(seq) - 1) |-> IF i < k THEN seq[i] ELSE seq[i + 1]]
FaDeallocBase(h, k) ==
    /\ falloc.hart[h].pc = "idle"
    /\ k \in 1 .. Len(falloc.out)
    /\ falloc' = [falloc EXCEPT
                    !.out = Without(@, k),
                    !.hart[h] = [pc |-> "dealloc",
                                 start |-> DeallocStart(falloc, falloc.out[k][1]),
                                 cnt |-> falloc.out[k][2] - falloc.out[k][1]]]
    /\ FaLeave
FaDeallocLock(h) ==
    /\ falloc.hart[h].pc = "dealloc"
    /\ falloc' = [falloc EXCEPT
                    !.free = DeallocContiguous(@, falloc.hart[h].start, falloc.hart[h].cnt),
                    !.hart[h] = HartIdle]
    /\ FaLeave

\* init_frame_allocator: the region from the end of the kernel image to
\* MEMORY_END; either end may stand inside a page.
KernelEnds == {FrameBase * PAGE_SIZE, FrameBase * PAGE_SIZE + HALF_PAGE}
MemoryEnds == {(FrameBase + FaFrames) * PAGE_SIZE, (FrameBase + FaFrames) * PAGE_SIZE + HALF_PAGE}
FaCounts == 1 .. FaMaxCnt
InitFrame ==
    /\ spaces = Booted.spaces
    /\ cache = Booted.cache
    /\ mem = Booted.mem
    /\ panicked = FALSE
    /\ last = Call("from_elf", 1, 0, 0, "", "Ok", 0)
    /\ ops = 0
    /\ cow_done = {}
    /\ falloc \in {BitMapFrameAllocatorInit(BitMapFrameAllocatorNew, s, e) :
                     s \in KernelEnds, e \in MemoryEnds}
    /\ slab = SlabAllocatorNew
    /\ inode = Ext4InodeNew
    /\ ptable = PageTableNew
    /\ lavm = LaVmNew
    /\ loader = LoaderIdle
    /\ kvm = KernVmSpaceNew
    /\ iter = VpnPageRangeIterNew(<<0, 0>>)
    /\ split = SplitIdle
    /\ cread = CacheReaderNew({})
NextFrame ==
    \/ \E h \in Harts, cnt \in FaCounts : FaAllocLock(h, cnt)
    \/ \E h \in Harts : FaAllocBase(h)
    \/ \E h \in Harts, k \in 1 .. FaFrames + 1 : FaDeallocBase(h, k)
    \/ \E h \in Harts : FaDeallocLock(h)
SpecFrame == InitFrame /\ [][NextFrame]_vars

\* ------------------------------------------------------------ slab calls
\* The methods of one SlabCache, run to completion by a caller that has it
\* to itself (&mut self).
SlabLeave == UNCHANGED <<vm_vars, falloc, inode, aux_vars>>
SlabCanCall == ~slab.panicked /\ slab.steps < SlabOps
SlabCalled(sl) == [sl EXCEPT !.steps = @ + 1]
SlabAlloc(c) ==
    /\ SlabCanCall
    /\ slab' = SlabCalled(SlabAllocOf(slab, c))
    /\ SlabLeave
SlabDealloc(c, a) ==
    /\ SlabCanCall
    /\ slab.held[a] > 0
    /\ slab' = SlabCalled(SlabDeallocOf(slab, c, a))
    /\ SlabLeave
SlabShrink(c) ==
    /\ SlabCanCall
    /\ slab' = SlabCalled(SlabShrinkOf(slab, c))
    /\ SlabLeave

InitSlab ==
    /\ spaces = Booted.spaces
    /\ cache = Booted.cache
    /\ mem = Booted.mem
    /\ panicked = FALSE
    /\ last = Call("from_elf", 1, 0, 0, "", "Ok", 0)
    /\ ops = 0
    /\ cow_done = {}
    /\ falloc = BitMapFrameAllocatorNew
    /\ slab = SlabAllocatorNew
    /\ inode = Ext4InodeNew
    /\ ptable = PageTableNew
    /\ lavm = LaVmNew
    /\ loader = LoaderIdle
    /\ kvm = KernVmSpaceNew
    /\ iter = VpnPageRangeIterNew(<<0, 0>>)
    /\ split = SplitIdle
    /\ cread = CacheReaderNew({})
NextSlab ==
    \/ \E c \in Caches : SlabAlloc(c)
    \/ \E c \in Caches, a \in NodeAddrs : SlabDealloc(c, a)
    \/ \E c \in Caches : SlabShrink(c)
SpecSlab == InitSlab /\ [][NextSlab]_vars

\* slab_alloc / slab_dealloc / slab_shrink reach the caches through
\* SLAB_ALLOCATOR.exclusive_access(), which hands out &mut to the one
\* instance and takes no lock: the calls of different harts interleave
\* between their reads and writes of the cache.
SmpStep(sl) == [sl EXCEPT !.steps = @ + 1]
SmpCanStep == ~slab.panicked /\ slab.steps < SmpOps
\* alloc, top of the loop: freelist is read
SmpAllocTop(sl, h, c) ==
    IF sl.cache[c].freelist # Null
    THEN [sl EXCEPT !.hart[h] = [pc |-> "pop", c |-> c, a |-> sl.cache[c].freelist]]
    ELSE IF SlabFrameAlloc(sl.pool) = None
         THEN [SlabGrow(sl, c) EXCEPT !.hart[h] = SlabIdle]
         ELSE [SlabGrow(sl, c) EXCEPT !.hart[h] = [pc |-> "loop", c |-> c, a |-> Null]]
SmpAllocRead(h, c) ==
    /\ SmpCanStep
    /\ \/ slab.hart[h].pc = "idle"
       \/ slab.hart[h].pc = "loop" /\ slab.hart[h].c = c
    /\ slab' = SmpStep(SmpAllocTop(slab, h, c))
    /\ SlabLeave
\* alloc: the payload read before is unlinked and returned
SmpAllocPop(h) ==
    /\ SmpCanStep
    /\ slab.hart[h].pc = "pop"
    /\ slab' = SmpStep([SlabPop(slab, slab.hart[h].c, slab.hart[h].a) EXCEPT !.hart[h] = SlabIdle])
    /\ SlabLeave
\* dealloc: the owner is checked and the node linked to the freelist read
SmpDeallocTop(sl, h, c, a) ==
    IF SlabOwnerOk(sl, c, a)
    THEN [SlabLink(sl, c, a) EXCEPT !.hart[h] = [pc |-> "push", c |-> c, a |-> a]]
    ELSE SlabPanic(sl, "dealloc", c, a)
SmpDeallocLink(h, c, a) ==
    /\ SmpCanStep
    /\ slab.hart[h].pc = "idle"
    /\ slab.held[a] > 0
    /\ slab' = SmpStep(SmpDeallocTop(slab, h, c, a))
    /\ SlabLeave
\* dealloc: the node becomes the freelist
SmpDeallocPush(h) ==
    /\ SmpCanStep
    /\ slab.hart[h].pc = "push"
    /\ slab' = SmpStep([SlabPush(slab, slab.hart[h].c, slab.hart[h].a) EXCEPT !.hart[h] = SlabIdle])
    /\ SlabLeave
SmpShrink(h, c) ==
    /\ SmpCanStep
    /\ slab.hart[h].pc = "idle"
    /\ slab' = SmpStep(SlabShrinkOf(slab, c))
    /\ SlabLeave
NextSlabSmp ==
    \/ \E h \in Harts, c \in Caches : SmpAllocRead(h, c)
    \/ \E h \in Harts : SmpAllocPop(h)
    \/ \E h \in Harts, c \in Caches, a \in NodeAddrs : SmpDeallocLink(h, c, a)
    \/ \E h \in Harts : SmpDeallocPush(h)
    \/ \E h \in Harts, c \in Caches : SmpShrink(h, c)
SpecSlabSmp == InitSlab /\ [][NextSlabSmp]_vars

\* ------------------------------------------------------------ inode calls
InodeLeave == UNCHANGED <<vm_vars, falloc, slab, aux_vars>>
\* read_page_at by one task at a time
InodeReadPageAt(t, off) ==
    /\ inode' = ReadPageAtOf(inode, t, off)
    /\ InodeLeave
InitInode ==
    /\ spaces = Booted.spaces
    /\ cache = Booted.cache
    /\ mem = Booted.mem
    /\ panicked = FALSE
    /\ last = Call("from_elf", 1, 0, 0, "", "Ok", 0)
    /\ ops = 0
    /\ cow_done = {}
    /\ falloc = BitMapFrameAllocatorNew
    /\ slab = SlabAllocatorNew
    /\ inode \in {Ext4InodeOf(w) : w \in BOOLEAN}
    /\ ptable = PageTableNew
    /\ lavm = LaVmNew
    /\ loader = LoaderIdle
    /\ kvm = KernVmSpaceNew
    /\ iter = VpnPageRangeIterNew(<<0, 0>>)
    /\ split = SplitIdle
    /\ cread = CacheReaderNew({})
NextInode == \E t \in Tasks, off \in InodeOffsets : InodeReadPageAt(t, off)
SpecInode == InitInode /\ [][NextInode]_vars

\* read_page_at by tasks on several harts: nothing is held from get_page
\* to insert_page, so another call can run between them.
InodeLookup(t, off) ==
    /\ inode.task[t].pc = "idle"
    /\ inode' = ReadLookup(inode, t, off)
    /\ InodeLeave
InodeInsert(t) ==
    /\ inode.task[t].pc = "insert"
    /\ inode' = ReadInsert(inode, t)
    /\ InodeLeave
NextInodeSmp ==
    \/ \E t \in Tasks, off \in InodeOffsets : InodeLookup(t, off)
    \/ \E t \in Tasks : InodeInsert(t)
SpecInodeSmp == InitInode /\ [][NextInodeSmp]_vars

\* ------------------------------------------------------------ page table calls
PtLeave == UNCHANGED <<vm_vars, falloc, slab, inode, lavm, loader, kvm, iter, split, cread>>
PtCanCall == ~ptable.panicked /\ ptable.steps < PtOps
PtCalled(pt, op, vpn, ppn, level) ==
    [pt EXCEPT !.ret = PtCall(op, vpn, ppn, level, IF pt.panicked THEN "Panic" ELSE "Ok"),
               !.steps = ptable.steps + 1]
PageTableMap(vpn, ppn, perm, level) ==
    /\ PtCanCall
    /\ ptable' = PtCalled(PageTableMapOf(ptable, vpn, ppn, perm, level), "map", vpn, ppn, level)
    /\ PtLeave
PageTableUnmap(vpn) ==
    /\ PtCanCall
    /\ ptable' = PtCalled(PageTableUnmapOf(ptable, vpn), "unmap", vpn, 0, "Small")
    /\ PtLeave

PtPerms == {{"R", "W", "U"}, {"R", "X"}}
InitPt ==
    /\ spaces = Booted.spaces
    /\ cache = Booted.cache
    /\ mem = Booted.mem
    /\ panicked = FALSE
    /\ last = Call("from_elf", 1, 0, 0, "", "Ok", 0)
    /\ ops = 0
    /\ cow_done = {}
    /\ falloc = BitMapFrameAllocatorNew
    /\ slab = SlabAllocatorNew
    /\ inode = Ext4InodeNew
    /\ ptable \in {PageTableNewIn(data) : data \in {ZeroTable, JunkTable}}
    /\ lavm = LaVmNew
    /\ loader = LoaderIdle
    /\ kvm = KernVmSpaceNew
    /\ iter = VpnPageRangeIterNew(<<0, 0>>)
    /\ split = SplitIdle
    /\ cread = CacheReaderNew({})
NextPt ==
    \/ \E vpn \in PtVpns, ppn \in PtDataFrames, perm \in PtPerms, level \in {"Huge", "Big", "Small"} :
          PageTableMap(vpn, ppn, perm, level)
    \/ \E vpn \in PtVpns : PageTableUnmap(vpn)
SpecPt == InitPt /\ [][NextPt]_vars

\* ------------------------------------------------------------ ELF loader calls
ElfLeave == UNCHANGED <<vm_vars, falloc, slab, inode, ptable, lavm, kvm, iter, split, cread>>
ElfDone(op, r) ==
    loader' = Loader(loader.phdrs, op, IF r.st = "ok" THEN "Ok" ELSE "Panic",
                     IF r.st = "ok" THEN r.g.spaces[1].heap_bottom_va ELSE 0)
FromElfCall ==
    /\ loader.op = "none"
    /\ ElfDone("from_elf", FromElfOf(Boot, 1, loader.phdrs, FALSE))
    /\ ElfLeave
FromElfFileCall ==
    /\ loader.op = "none"
    /\ ElfDone("from_elf_file", FromElfOf(Boot, 1, loader.phdrs, TRUE))
    /\ ElfLeave
InitElf ==
    /\ spaces = Booted.spaces
    /\ cache = Booted.cache
    /\ mem = Booted.mem
    /\ panicked = FALSE
    /\ last = Call("from_elf", 1, 0, 0, "", "Ok", 0)
    /\ ops = 0
    /\ cow_done = {}
    /\ falloc = BitMapFrameAllocatorNew
    /\ slab = SlabAllocatorNew
    /\ inode = Ext4InodeNew
    /\ ptable = PageTableNew
    /\ lavm = LaVmNew
    /\ loader \in {Loader(phdrs, "none", "", 0) : phdrs \in ElfTables}
    /\ kvm = KernVmSpaceNew
    /\ iter = VpnPageRangeIterNew(<<0, 0>>)
    /\ split = SplitIdle
    /\ cread = CacheReaderNew({})
NextElf == FromElfCall \/ FromElfFileCall
SpecElf == InitElf /\ [][NextElf]_vars

\* ------------------------------------------------------------ kernel VM space calls
KvmLeave == UNCHANGED <<vm_vars, falloc, slab, inode, ptable, lavm, loader, iter, split, cread>>
KvmCanCall == ~kvm.panicked /\ kvm.steps < KvmOps
MapVmArea(frames, perm) ==
    /\ KvmCanCall
    /\ kvm' = [MapVmAreaOf(kvm, frames, perm) EXCEPT !.steps = @ + 1]
    /\ KvmLeave
UnmapVmArea(range_vpn) ==
    /\ KvmCanCall
    /\ kvm' = [UnmapVmAreaOf(kvm, range_vpn) EXCEPT !.steps = @ + 1]
    /\ KvmLeave

KvmFrames == UNION {[1 .. n -> {FrameBase, FrameBase + 1}] : n \in 1 .. KvmMaxFrames}
KvmRanges ==
    {r \in VPNS \X VPNS : VaFloor(KERNEL_VM_BOTTOM) <= r[1] /\ r[1] < r[2]
                          /\ r[2] <= VaFloor(KERNEL_VM_TOP)}
InitKvm ==
    /\ spaces = Booted.spaces
    /\ cache = Booted.cache
    /\ mem = Booted.mem
    /\ panicked = FALSE
    /\ last = Call("from_elf", 1, 0, 0, "", "Ok", 0)
    /\ ops = 0
    /\ cow_done = {}
    /\ falloc = BitMapFrameAllocatorNew
    /\ slab = SlabAllocatorNew
    /\ inode = Ext4InodeNew
    /\ ptable = PageTableNew
    /\ lavm = LaVmNew
    /\ loader = LoaderIdle
    /\ kvm = KernVmSpaceNew
    /\ iter = VpnPageRangeIterNew(<<0, 0>>)
    /\ split = SplitIdle
    /\ cread = CacheReaderNew({})
NextKvm ==
    \/ \E frames \in KvmFrames, perm \in {{"R", "W"}, {"R"}} : MapVmArea(frames, perm)
    \/ \E r \in KvmRanges : UnmapVmArea(r)
SpecKvm == InitKvm /\ [][NextKvm]_vars

\* ------------------------------------------------------------ page range iterator calls
IterLeave == UNCHANGED <<vm_vars, falloc, slab, inode, ptable, lavm, loader, kvm, split, cread>>
IterStep(it, r) ==
    IF r.some THEN [it EXCEPT !.range_vpn = r.range_vpn, !.out = Append(@, r.item)]
    ELSE [it EXCEPT !.done = TRUE]
IterNext ==
    /\ ~iter.done
    /\ iter' = IterStep(iter, VpnIterNext(iter.range_vpn))
    /\ IterLeave

IterRanges == (0 .. IterVpns) \X (0 .. IterVpns)
InitIter ==
    /\ spaces = Booted.spaces
    /\ cache = Booted.cache
    /\ mem = Booted.mem
    /\ panicked = FALSE
    /\ last = Call("from_elf", 1, 0, 0, "", "Ok", 0)
    /\ ops = 0
    /\ cow_done = {}
    /\ falloc = BitMapFrameAllocatorNew
    /\ slab = SlabAllocatorNew
    /\ inode = Ext4InodeNew
    /\ ptable = PageTableNew
    /\ lavm = LaVmNew
    /\ loader = LoaderIdle
    /\ kvm = KernVmSpaceNew
    /\ iter \in {VpnPageRangeIterNew(r) : r \in IterRanges}
    /\ split = SplitIdle
    /\ cread = CacheReaderNew({})
NextIter == IterNext
SpecIter == InitIter /\ [][NextIter]_vars

\* ------------------------------------------------------------ split_off calls
SplitLeave == UNCHANGED <<vm_vars, falloc, slab, inode, ptable, lavm, loader, kvm, iter, cread>>
SplitOffCall(p) ==
    /\ ~split.done
    /\ split' = SplitCall(split.area, p, SplitOff(split.area, p), TRUE)
    /\ SplitLeave

InitSplit ==
    /\ spaces = Booted.spaces
    /\ cache = Booted.cache
    /\ mem = Booted.mem
    /\ panicked = FALSE
    /\ last = Call("from_elf", 1, 0, 0, "", "Ok", 0)
    /\ ops = 0
    /\ cow_done = {}
    /\ falloc = BitMapFrameAllocatorNew
    /\ slab = SlabAllocatorNew
    /\ inode = Ext4InodeNew
    /\ ptable = PageTableNew
    /\ lavm = LaVmNew
    /\ loader = LoaderIdle
    /\ kvm = KernVmSpaceNew
    /\ iter = VpnPageRangeIterNew(<<0, 0>>)
    /\ split \in {SplitCall(a, 0, <<a, a>>, FALSE) : a \in SplitAreas}
    /\ cread = CacheReaderNew({})
NextSplit ==
    \E p \in VaFloor(split.area.range_va[1]) .. VaCeil(split.area.range_va[2]) : SplitOffCall(p)
SpecSplit == InitSplit /\ [][NextSplit]_vars

\* ------------------------------------------------------------ cached read calls
CreadLeave == UNCHANGED <<vm_vars, falloc, slab, inode, ptable, lavm, loader, kvm, iter, split>>
CacheReadAt(offset, len) ==
    /\ cread.steps < CreadOps
    /\ cread' = [CacheReadAtOf(cread, offset, len) EXCEPT !.steps = @ + 1]
    /\ CreadLeave

CreadArgs == {h * HALF_PAGE : h \in 0 .. FileHalves + 1}
CreadLens == {h * HALF_PAGE : h \in 0 .. CreadLen}
InitCread ==
    /\ spaces = Booted.spaces
    /\ cache = Booted.cache
    /\ mem = Booted.mem
    /\ panicked = FALSE
    /\ last = Call("from_elf", 1, 0, 0, "", "Ok", 0)
    /\ ops = 0
    /\ cow_done = {}
    /\ falloc = BitMapFrameAllocatorNew
    /\ slab = SlabAllocatorNew
    /\ inode = Ext4InodeNew
    /\ ptable = PageTableNew
    /\ lavm = LaVmNew
    /\ loader = LoaderIdle
    /\ kvm = KernVmSpaceNew
    /\ iter = VpnPageRangeIterNew(<<0, 0>>)
    /\ split = SplitIdle
    /\ cread \in {CacheReaderNew(had) : had \in SUBSET {o \in CreadOffsets : o < FileSize}}
NextCread == \E offset \in CreadArgs, len \in CreadLens : CacheReadAt(offset, len)
SpecCread == InitCread /\ [][NextCread]_vars

\* ------------------------------------------------------------ properties
LiveSpaces == {s \in SpaceIds : spaces[s].live}
PteOf(s, v) == spaces[s].pt[v]

\* C1: in every user VM space, for every area and every VPN bound in the
\* area's frames map, translate_vpn of that VPN is the PPN of the bound
\* frame.
C1_FramesTranslate ==
    \A s \in SpaceIds : \A a \in spaces[s].areas : \A v \in DOMAIN a.frames :
        TranslateVpn(spaces[s].pt, v) = a.frames[v]

\* C2: after any sequence of calls no two areas of one user VM space have
\* intersecting VA ranges (neither their range_va nor their keys in the
\* range map), so a call that would create an overlap has inserted nothing.
C2_AreasDisjoint ==
    \A s \in SpaceIds : \A a \in spaces[s].areas : \A b \in spaces[s].areas :
        a # b => ~Overlap(a.range_va, b.range_va) /\ ~Overlap(a.k, b.k)

\* A MAP_FIXED file mapping asked on top of the stack has been placed, in
\* the file window, next to the areas that were there.
C2_Witness ==
    /\ last.op = "alloc_mmap_area" /\ last.va = USER_STACK_BOTTOM /\ last.res = "Ok"
    /\ \E a \in spaces[last.s].areas : a.vma_type = "Mmap" /\ a.range_va[1] = last.ret
    /\ \E a \in spaces[last.s].areas : a.vma_type = "Stack"
    /\ last.ret # USER_STACK_BOTTOM

\* C3: every valid leaf PTE whose permission has the copy-on-write bit C
\* has the write bit W clear.
C3_CowNotWritable ==
    \A s \in SpaceIds : \A v \in VPNS :
        PteIsValid(PteOf(s, v)) /\ "C" \in PteMapPerm(PteOf(s, v))
            => "W" \notin PteMapPerm(PteOf(s, v))

After == Machine(spaces', cache', mem')
AreasAt(sp, s, v) == RmGet(sp[s].areas, StartAddr(v))
HeapIn(sp, s) == FindHeap(sp[s].areas, sp[s].heap_bottom_va)
CowPte(pte) == PteIsValid(pte) /\ "C" \in PteMapPerm(pte) /\ "W" \notin PteMapPerm(pte)

\* C4: after from_existed returns Ok, for every area of the parent that was
\* not the TrapContext and whose permission contained W, every VPN that was
\* mapped in the parent before the call is mapped in the parent's and in
\* the child's page table with W clear and C set, and the frames maps of
\* both hold the frame the parent held, whose owner count is at least 2.
C4_Shared(p, c, a, v) ==
    /\ CowPte(spaces'[p].pt[v]) /\ CowPte(spaces'[c].pt[v])
    /\ \E pa \in AreasAt(spaces', p, v), ca \in AreasAt(spaces', c, v) :
          /\ v \in DOMAIN pa.frames /\ v \in DOMAIN ca.frames
          /\ pa.frames[v] = a.frames[v] /\ ca.frames[v] = a.frames[v]
          /\ spaces'[p].pt[v].ppn = a.frames[v] /\ spaces'[c].pt[v].ppn = a.frames[v]
          /\ GetOwners(After, a.frames[v]) >= 2
C4_ForkSharesCow ==
    [][(last'.op = "from_existed" /\ last'.res = "Ok") =>
          \A a \in spaces[last'.s].areas :
              (a.vma_type # "TrapContext" /\ "W" \in a.map_perm) =>
                  \A v \in DOMAIN a.frames :
                      PteIsValid(spaces[last'.s].pt[v]) => C4_Shared(last'.s, last'.ret, a, v)]_vars

\* C5: when handle_page_fault for a write to a VPN whose PTE is valid and
\* carries C returns Ok, the PTE afterwards has W set and C clear; if the
\* frame had one owner the PPN of the PTE is unchanged and no frame is
\* allocated, otherwise the area's frames entry is a frame that was free
\* and the old frame has one owner less.
C5_Post(s, v, a) ==
    /\ "W" \in PteMapPerm(spaces'[s].pt[v]) /\ "C" \notin PteMapPerm(spaces'[s].pt[v])
    /\ IF GetOwners(Now, a.frames[v]) = 1
       THEN /\ spaces'[s].pt[v].ppn = spaces[s].pt[v].ppn
            /\ HeldFrames(After) = HeldFrames(Now)
       ELSE /\ \A b \in AreasAt(spaces', s, v) :
                  v \in DOMAIN b.frames /\ b.frames[v] \notin HeldFrames(Now)
            /\ GetOwners(After, a.frames[v]) = GetOwners(Now, a.frames[v]) - 1
C5_CowFaultResolves ==
    [][\A s \in SpaceIds, v \in VPNS :
          (/\ last'.op = "handle_page_fault" /\ last'.s = s /\ last'.va = StartAddr(v)
           /\ CowResolved(s, v, last'.acc, last')) =>
              \A a \in AreasAt(spaces, s, v) : C5_Post(s, v, a)]_vars

\* C6: after fork, when a space has resolved a copy-on-write fault at a VPN
\* of a private area and then stores to it, what every other space reads at
\* that VPN is unchanged, and so are the frames the others hold for it; the
\* frame a resolved fault puts in place of a shared one starts with the
\* bytes of the shared one.
C6_StoreApart(s, v) ==
    \A t \in SpaceIds \ {s} :
        /\ PteIsValid(spaces[t].pt[v]) => mem'[spaces[t].pt[v].ppn] = mem[spaces[t].pt[v].ppn]
        /\ \A b \in spaces[t].areas :
              v \in DOMAIN b.frames => mem'[b.frames[v]] = mem[b.frames[v]]
C6_CopyExact(s, v) ==
    \A a \in AreasAt(spaces, s, v), b \in AreasAt(spaces', s, v) :
        b.frames[v] # a.frames[v] => mem'[b.frames[v]] = mem[a.frames[v]]
C6_Private(s, v) ==
    \E a \in AreasAt(spaces, s, v) : a.vma_type # "Shm" /\ "MAP_SHARED" \notin a.mmap_flags
C6_CowIsolation ==
    [][\A s \in SpaceIds, v \in VPNS :
          /\ (/\ last'.op = "store" /\ last'.s = s /\ last'.va = StartAddr(v)
              /\ <<s, v>> \in cow_done /\ C6_Private(s, v)) => C6_StoreApart(s, v)
          /\ (/\ last'.op = "handle_page_fault" /\ last'.s = s /\ last'.va = StartAddr(v)
              /\ CowResolved(s, v, last'.acc, last')) => C6_CopyExact(s, v)]_vars

\* C7: after unmap(va, len) returns Ok, no VPN of [floor(va), ceil(va+len))
\* translates and no area covers an address of these pages, so that a page
\* fault there fails for want of an area.
C7_UnmapClearsRange ==
    (last.op = "unmap" /\ last.res = "Ok") =>
        \A v \in VPNS :
            (VaFloor(last.va) <= v /\ v < VaCeil(last.va + last.len)) =>
                /\ TranslateVpn(spaces[last.s].pt, v) = None
                /\ \A o \in InPageOffsets : RmGet(spaces[last.s].areas, StartAddr(v) + o) = {}

\* C8: unmap(va, len) of the middle of an area leaves the head
\* [area.start, floor(va)) and the tail [ceil(va+len), area.end) as areas,
\* and every VPN of the head and of the tail translates afterwards as it
\* did before.
C8_Kept(s, a, lo, hi) ==
    /\ \E h \in spaces'[s].areas : h.range_va = <<a.range_va[1], StartAddr(lo)>>
    /\ \E r \in spaces'[s].areas : r.range_va = <<StartAddr(hi), a.range_va[2]>>
    /\ \A v \in RangeVpn(a) :
          (v < lo \/ v >= hi) => TranslateVpn(spaces'[s].pt, v) = TranslateVpn(spaces[s].pt, v)
C8_UnmapKeepsHeadTail ==
    [][(last'.op = "unmap" /\ last'.res = "Ok") =>
          \A a \in RmGet(spaces[last'.s].areas, last'.va) :
              (/\ a.range_va[1] < StartAddr(VaFloor(last'.va))
               /\ StartAddr(VaCeil(last'.va + last'.len)) < a.range_va[2]) =>
                  C8_Kept(last'.s, a, VaFloor(last'.va), VaCeil(last'.va + last'.len))]_vars

\* C9: reset_heap_break(x) returns a value that is not below the heap start
\* and that is the end of the heap area's range after the call; when x is
\* not below the current end and the range up to x is free the value is x
\* (so a brk above an earlier shrink re-extends the heap to its argument).
C9_BrkReturnsEnd ==
    [][(last'.op = "reset_heap_break" /\ last'.res = "Ok") =>
          /\ last'.ret >= spaces'[last'.s].heap_bottom_va
          /\ \A h \in HeapIn(spaces', last'.s) : h.range_va[2] = last'.ret
          /\ \A h \in HeapIn(spaces, last'.s) :
                (/\ last'.va >= h.range_va[2]
                 /\ RmCanExtendBack(spaces[last'.s].areas, <<h.range_va[1], last'.va>>)) =>
                    last'.ret = last'.va]_vars

\* C10: after reset_heap_break has shrunk the heap to new_brk
\* (heap.start < new_brk < old end), no VPN of [ceil(new_brk), ceil(old end))
\* translates and the heap area holds no frame for it, and every heap VPN
\* below ceil(new_brk) has the PTE and the page content it had.
C10_Dropped(s, v) ==
    /\ TranslateVpn(spaces'[s].pt, v) = None
    /\ \A h \in HeapIn(spaces', s) : v \notin DOMAIN h.frames
C10_KeptPage(s, v) ==
    /\ spaces'[s].pt[v] = spaces[s].pt[v]
    /\ PteIsValid(spaces[s].pt[v]) => mem'[spaces[s].pt[v].ppn] = mem[spaces[s].pt[v].ppn]
    /\ \A h \in HeapIn(spaces, s) :
          v \in DOMAIN h.frames =>
              /\ \E h2 \in HeapIn(spaces', s) : v \in DOMAIN h2.frames /\ h2.frames[v] = h.frames[v]
              /\ mem'[h.frames[v]] = mem[h.frames[v]]
C10_BrkShrinkUnmaps ==
    [][\A h \in HeapIn(spaces, last'.s) :
          (/\ last'.op = "reset_heap_break" /\ last'.res = "Ok" /\ last'.ret = last'.va
           /\ h.range_va[1] < last'.va /\ last'.va < h.range_va[2]) =>
              \A v \in VPNS :
                  /\ (VaCeil(last'.va) <= v /\ v < VaCeil(h.range_va[2])) => C10_Dropped(last'.s, v)
                  /\ (VaFloor(h.range_va[1]) <= v /\ v < VaCeil(last'.va)) => C10_KeptPage(last'.s, v)]_vars

\* The heap was shrunk by a call that released a frame (a frame below one
\* the heap still holds is free) and left a page of the heap mapped.
C10_Witness ==
    /\ last.op = "reset_heap_break" /\ last.res = "Ok" /\ last.ret = last.va
    /\ \E h \in HeapIn(spaces, last.s) :
          /\ h.range_va[1] < last.va /\ last.va <= h.range_va[2]
          /\ \E v \in DOMAIN h.frames :
                /\ TranslateVpn(spaces[last.s].pt, v) = h.frames[v]
                /\ \E f \in FreeFrames(Now, {}) : f < h.frames[v]
          /\ \E v \in VPNS : v >= VaCeil(last.va) /\ spaces[last.s].pt[v].flags = {"NR", "NX"}

\* ------------------------------------------------------------ frame allocator properties
\* bit indices behind a returned PPN range, and those held by harts that
\* are between the two locks of alloc or dealloc
FaBitsOf(f, r) == (r[1] - f.range[1]) .. (r[2] - 1 - f.range[1])
FaOutBits(f) == UNION {FaBitsOf(f, f.out[k]) : k \in 1 .. Len(f.out)}
FaInFlight(f) ==
    UNION {f.hart[h].start .. (f.hart[h].start + f.hart[h].cnt - 1) :
             h \in {x \in Harts : f.hart[x].pc # "idle"}}
FaQuiet(f) == \A h \in Harts : f.hart[h].pc = "idle"

\* the free bits are exactly the inserted bits not behind a range that is
\* out or in flight: every matched alloc/dealloc has put back what it took
C11_Conserved ==
    /\ falloc.free \cap (FaOutBits(falloc) \cup FaInFlight(falloc)) = {}
    /\ falloc.free \cup FaOutBits(falloc) \cup FaInFlight(falloc) = falloc.inserted
\* alloc(cnt) then dealloc of what it returned, from the current state
FaAfterRoundTrip(f, cnt, i) ==
    DeallocContiguous(AllocTake(f.free, i, cnt), DeallocStart(f, AllocStart(f, i)), cnt)
C11_RoundTrip ==
    \A cnt \in FaCounts :
        AllocContiguous(falloc.free, cnt) # None =>
            /\ FaAfterRoundTrip(falloc, cnt, AllocContiguous(falloc.free, cnt)) = falloc.free
            /\ AllocContiguous(FaAfterRoundTrip(falloc, cnt, AllocContiguous(falloc.free, cnt)), cnt)
                 = AllocContiguous(falloc.free, cnt)
\* C11: alloc(n) followed by dealloc of the returned range restores the set
\* of free frames, so that alloc(n) succeeds again with n frames; once
\* every range obtained has been deallocated all inserted frames are free.
C11_AllocDeallocRestores == C11_Conserved /\ C11_RoundTrip
\* ranges were obtained and all of them have been deallocated
C11_Witness ==
    /\ falloc.ret.r # <<>> /\ falloc.out = <<>> /\ FaQuiet(falloc)
    /\ falloc.free = falloc.inserted /\ falloc.inserted # {}

\* C12: whatever the interleaving of the harts, alloc(n) returns n
\* consecutive PPNs, and no two ranges that are out share a frame.
FaDisjoint(r, q) == r[2] <= q[1] \/ q[2] <= r[1]
C12_RangesDisjoint ==
    /\ falloc.ret.r # <<>> => falloc.ret.r[2] - falloc.ret.r[1] = falloc.ret.cnt
    /\ \A j \in 1 .. Len(falloc.out), k \in 1 .. Len(falloc.out) :
          j # k => FaDisjoint(falloc.out[j], falloc.out[k])
\* two ranges are out while one hart stands between the locks of alloc
\* and the other between the locks of dealloc
C12_Witness ==
    /\ Len(falloc.out) >= 2
    /\ \E h \in Harts, g \in Harts :
          falloc.hart[h].pc = "alloc" /\ falloc.hart[g].pc = "dealloc"

\* C13: every PPN of every range alloc has returned lies in the managed
\* region [ceil(start_pa), floor(end_pa)), which init stored in `range`.
C13_InsideManaged ==
    \A k \in 1 .. Len(falloc.out) :
        falloc.range[1] <= falloc.out[k][1] /\ falloc.out[k][2] <= falloc.range[2]

\* ------------------------------------------------------------ slab properties
\* the blocks of the list of cache c, and the nodes of its freelist
RECURSIVE BlockList(_, _, _)
BlockList(sl, cur, fuel) ==
    IF cur = Null \/ fuel = 0 THEN <<>> ELSE <<cur>> \o BlockList(sl, sl.block[cur].next, fuel - 1)
BlocksIn(sl, c) == BlockList(sl, sl.cache[c].head, SlabFuel)
RECURSIVE FreeList(_, _, _)
FreeList(sl, cur, fuel) ==
    IF cur = Null \/ fuel = 0 THEN <<>> ELSE <<cur>> \o FreeList(sl, sl.node[cur], fuel - 1)
FreeIn(sl, c) == FreeList(sl, sl.cache[c].freelist, SlabFuel)
SeqSet(s) == {s[i] : i \in 1 .. Len(s)}
HeldOf(sl, c) ==
    {a \in NodeAddrs : sl.held[a] > 0 /\ sl.block[BlockOf(a)].belong = CacheAddr(c)
                       /\ BlockOf(a) \notin sl.pool}
\* number of blocks that n allocs into an empty cache of capacity k need
BlocksFor(n, k) == (n + k - 1) \div k

\* C14: with n allocs and no dealloc on an empty cache of capacity k, the
\* cache holds ceil(n / k) blocks, one for n <= k and a second one only
\* from the (k+1)-th alloc on; the used counts add up to n, the first
\* block is full from n = k on, the n pointers returned are n distinct
\* nodes of these blocks, and the frame allocator has lost exactly one
\* frame per block.
C14_Counted(sl, c, n, k) ==
    /\ Len(BlocksIn(sl, c)) = BlocksFor(n, k)
    /\ Cardinality(HeldOf(sl, c)) = n
    /\ \A a \in HeldOf(sl, c) :
          /\ sl.held[a] = 1
          /\ \E p \in SeqSet(BlocksIn(sl, c)) : a \in NodesOf(p, SlabSize(c))
    /\ n <= k => sl.block[sl.cache[c].head].size = n
    /\ n > k => /\ sl.block[sl.cache[c].head].size = n - k
                /\ sl.block[sl.block[sl.cache[c].head].next].size = k
C14_FramesTaken(sl) ==
    /\ \A c \in Caches, d \in Caches :
          c # d => SeqSet(BlocksIn(sl, c)) \cap SeqSet(BlocksIn(sl, d)) = {}
    /\ sl.pool = SlabPpns \ UNION {SeqSet(BlocksIn(sl, c)) : c \in Caches}
C14_OneFramePerCap ==
    /\ C14_FramesTaken(slab)
    /\ \A c \in Caches :
          slab.allocs[c] \in 1 .. (2 * BlockCap(SlabSize(c))) =>
              C14_Counted(slab, c, slab.allocs[c], BlockCap(SlabSize(c)))
\* some cache got its second block with alloc number k + 1
C14_Witness ==
    \E c \in Caches :
        /\ slab.allocs[c] = BlockCap(SlabSize(c)) + 1
        /\ Len(BlocksIn(slab, c)) = 2
        /\ slab.ret = SlabRet("alloc", c, NodeAddr(slab.cache[c].head, SlabSize(c), 0), "Some")

\* what a dealloc of node a to cache c leaves: with the wrong owner, a
\* panic and nothing else; with the right one, a at the front of the
\* freelist and one use less in its block
C15_Refused(sl, after) ==
    /\ after.panicked
    /\ after.cache = sl.cache /\ after.block = sl.block
    /\ after.node = sl.node /\ after.held = sl.held /\ after.pool = sl.pool
C15_Returned(sl, after, c, a) ==
    /\ ~after.panicked
    /\ after.cache[c].freelist = a
    /\ after.node[a] = sl.cache[c].freelist
    /\ FreeIn(after, c) = <<a>> \o FreeIn(sl, c)
    /\ after.block[BlockOf(a)].size = sl.block[BlockOf(a)].size - 1
    /\ \A p \in SlabPpns \ {BlockOf(a)} : after.block[p] = sl.block[p]
    /\ after.cache[c].head = sl.cache[c].head
C15_Post(c, a) ==
    IF slab.block[BlockOf(a)].belong = CacheAddr(c)
    THEN C15_Returned(slab, slab', c, a)
    ELSE C15_Refused(slab, slab')
\* C15: dealloc of a pointer whose block records another owning cache
\* panics with the freelist and every in_use_count as they were; dealloc
\* to the owning cache puts the node on the freelist and decrements the
\* block's in_use_count.
C15_DeallocChecksOwner ==
    [][\A c \in Caches, a \in NodeAddrs : SlabDealloc(c, a) => C15_Post(c, a)]_vars
\* a node of one cache was given to the dealloc of another, which panicked
C15_Witness ==
    /\ slab.panicked
    /\ slab.ret.op = "dealloc" /\ slab.ret.res = "Panic"
    /\ slab.held[slab.ret.a] = 1
    /\ slab.block[BlockOf(slab.ret.a)].belong # CacheAddr(slab.ret.c)

\* what shrink of cache c leaves
Kept(sl, s) == SelectSeq(s, LAMBDA p : sl.block[p].size > 0)
KeptNodes(sl, s) == SelectSeq(s, LAMBDA a : sl.block[BlockOf(a)].size > 0)
C16_Post(sl, after, c) ==
    /\ \A p \in SeqSet(BlocksIn(sl, c)) :
          IF sl.block[p].size = 0
          THEN p \in after.pool /\ p \notin SeqSet(BlocksIn(after, c))
          ELSE /\ p \notin after.pool /\ p \in SeqSet(BlocksIn(after, c))
               /\ after.block[p].size = sl.block[p].size
               /\ \A a \in NodesOf(p, SlabSize(c)) : after.held[a] = sl.held[a]
    /\ BlocksIn(after, c) = Kept(sl, BlocksIn(sl, c))
    /\ FreeIn(after, c) = KeptNodes(sl, FreeIn(sl, c))
\* C16: shrink returns every block with in_use_count 0 to the frame
\* allocator and takes it off the block list, the head included, and
\* leaves every block in use in the list with its count and nodes.
C16_ShrinkReleasesEmpty ==
    [][\A c \in Caches : SlabShrink(c) => C16_Post(slab, slab', c)]_vars
\* shrink found an empty head and released it, released another block of
\* the cache too, and kept a block in use
C16_Witness ==
    /\ slab.ret.op = "shrink" /\ slab.ret.res = "Ok"
    /\ slab.ret.a \in slab.pool
    /\ \E p \in slab.pool : p # slab.ret.a /\ slab.block[p].belong = CacheAddr(slab.ret.c)
    /\ Len(BlocksIn(slab, slab.ret.c)) = 1
    /\ slab.steps < SlabOps

\* the nodes of the blocks of cache c
NodesIn(sl, c) == UNION {NodesOf(p, SlabSize(c)) : p \in SeqSet(BlocksIn(sl, c))}
SlabQuiet(sl) == \A h \in Harts : sl.hart[h].pc = "idle"
\* C17: however the slab calls of the harts interleave, no node is held by
\* two callers, and between calls every node of every block is either
\* held or on the freelist of its cache, never both and never neither.
C17_NoNodeTwice == \A a \in NodeAddrs : slab.held[a] <= 1
C17_NoNodeLost ==
    SlabQuiet(slab) =>
        \A c \in Caches :
            /\ SeqSet(FreeIn(slab, c)) \cap {a \in NodeAddrs : slab.held[a] > 0} = {}
            /\ SeqSet(FreeIn(slab, c)) \cup {a \in NodesIn(slab, c) : slab.held[a] > 0}
                 = NodesIn(slab, c)
C17_SlabExclusive == C17_NoNodeTwice /\ C17_NoNodeLost

\* ------------------------------------------------------------ page cache properties
PagesHanded(ino, off) == {h[2] : h \in {x \in ino.handed : x[1] = off}}
\* every page returned for an offset is the one page the cache holds for it
OnePagePer(ino) ==
    \A off \in InodeOffsets :
        /\ off >= FileSize => PagesHanded(ino, off) = {}
        /\ PagesHanded(ino, off) # {} => PagesHanded(ino, off) = {ino.cache[off]}
\* C18: below the file size, read_page_at(o) called again returns the
\* page the first call put in the cache; one page per offset is created.
C18_SamePage ==
    /\ OnePagePer(inode)
    /\ inode.pages = Cardinality({off \in InodeOffsets : inode.cache[off] # None})
\* both tasks have got the page of the same offset, created once
C18_Witness ==
    /\ inode.got[1].page # None
    /\ inode.got[1] = inode.got[2]
    /\ inode.pages = 1

\* C19: when the calls of two tasks for an uncached offset overlap, once
\* both have returned the pages they got are the one page the cache holds.
InodeQuiet(ino) == \A t \in Tasks : ino.task[t].pc = "idle"
C19_RaceSamePage == InodeQuiet(inode) => OnePagePer(inode)

\* ------------------------------------------------------------ file-backed area properties
\* the two halves of the page mapped at vpn, and where they lie in area a
HalfAt(a, vpn, h) == (vpn - VaFloor(a.range_va[1])) * PAGE_SIZE + (h - 1) * HALF_PAGE
MappedIn(s, a) == {v \in DOMAIN a.frames : PteIsValid(spaces[s].pt[v])}
FileBytesOk(s, a, vpn) ==
    \A h \in {1, 2} :
        mem[spaces[s].pt[vpn].ppn][h] =
            IF HalfAt(a, vpn, h) >= a.len THEN 0
            ELSE FilePage(a.offset + (vpn - VaFloor(a.range_va[1])) * PAGE_SIZE)[h]
FileAreasOk(types) ==
    \A s \in LiveSpaces : \A a \in spaces[s].areas :
        (a.file /\ a.vma_type \in types) => \A v \in MappedIn(s, a) : FileBytesOk(s, a, v)
\* C20: in a file-backed area (Data with a file, file-backed Mmap) with
\* (offset, len), a page that has been faulted in reads as the file up to
\* area offset len and as zero from there on.
C20_ZeroPastLen == FileAreasOk({"Data", "Mmap"})
\* the same for the Data areas alone
C20_DataZeroPastLen == FileAreasOk({"Data"})

\* ------------------------------------------------------------ mmap properties
\* C21: with private file mappings only, whatever is stored through a
\* mapping, the page-cache page of every file offset keeps the bytes of
\* the file.
C21_CacheKeepsFile ==
    \A off \in PageOffsets :
        cache[off] # None => mem[cache[off]][1] = FilePage(off)[1]

C22_Offset(a, v) == a.offset + (v - VaFloor(a.range_va[1])) * PAGE_SIZE
C22_Perm(a, pte) ==
    IF "MAP_PRIVATE" \in a.mmap_flags
    THEN "W" \notin PteMapPerm(pte) /\ "C" \in PteMapPerm(pte)
    ELSE PteMapPerm(pte) = RW
C22_Page(s, a, v) ==
    /\ v - VaFloor(a.range_va[1]) < USER_FILE_PER_PAGES
    /\ C22_Offset(a, v) < FileSize
    /\ a.frames[v] = cache[C22_Offset(a, v)]
    /\ PteIsValid(PteOf(s, v))
    /\ PteOf(s, v).ppn = a.frames[v]
    /\ C22_Perm(a, PteOf(s, v))
\* C22: when alloc_mmap_area has returned Ok, the new area holds at most
\* USER_FILE_PER_PAGES pages, all leading and inside the file, each mapped
\* to the page-cache frame, with W clear and C set for MAP_PRIVATE and with
\* the requested permission for MAP_SHARED.
C22_EagerPagesMapped ==
    (last.op = "alloc_mmap_area" /\ last.res = "Ok") =>
        \A a \in RmGet(spaces[last.s].areas, last.ret) :
            /\ Cardinality(DOMAIN a.frames) <= USER_FILE_PER_PAGES
            /\ \A v \in DOMAIN a.frames : C22_Page(last.s, a, v)

C23_Free(areas, b, len) == \A a \in areas : a.k[2] <= b \/ b + len <= a.k[1]
C23_Starts(areas, win, len) ==
    {b \in {StartAddr(v) : v \in VPNS} :
        win[1] <= b /\ b + len <= win[2] /\ C23_Free(areas, b, len)}
C23_Expected(areas, win, va, len, flags) ==
    IF "MAP_FIXED" \in flags /\ C23_Free(areas, va, len) THEN <<"Ok", va>>
    ELSE IF C23_Starts(areas, win, len) = {} THEN <<"Err", ENOMEM>>
    ELSE <<"Ok", Min(C23_Starts(areas, win, len))>>
C23_Mmap ==
    \A s \in SpaceIds, a \in FileArgs, len \in MmapLens, o \in PageOffsets :
        AllocMmapArea(s, a[1], len, RW, a[2], o) =>
            <<last'.res, last'.ret>> =
                C23_Expected(spaces[s].areas, <<USER_FILE_BEG, USER_FILE_END>>, a[1], len, a[2])
C23_Anon ==
    \A s \in SpaceIds, a \in AnonArgs, sh \in BOOLEAN :
        AllocAnonArea(s, a[1], PAGE_SIZE, RW, a[2], sh) =>
            <<last'.res, last'.ret>> =
                C23_Expected(spaces[s].areas, <<USER_SHARE_BEG, USER_SHARE_END>>,
                             a[1], PAGE_SIZE, a[2])
\* C23: alloc_mmap_area and alloc_anon_area return va when MAP_FIXED is
\* given and [va, va + len) is free; in every other case they return the
\* lowest start of len free bytes inside their arena, or ENOMEM when the
\* arena has no such range.
C23_PlacementRule == [][C23_Mmap /\ C23_Anon]_vars

\* ------------------------------------------------------------ page fault errors
C24_Unmapped(s, va) ==
    /\ ~PteIsValid(PteOf(s, VaFloor(va)))
    /\ \E a \in RmGet(spaces[s].areas, va) : a.vma_type \in {"TrapContext", "Shm"}
C24_Fault ==
    \A s \in SpaceIds, va \in PageStarts, acc \in AccessTypes :
        (C24_Unmapped(s, va) /\ HandlePageFault(s, va, acc)) =>
            last'.res = "Err" /\ ~panicked' /\ spaces' = spaces
\* C24: a page fault on a VPN without a valid mapping inside a TrapContext
\* or a Shm area returns Err, does not panic, and leaves the page table
\* and the areas as they were.
C24_NoDemandPaging == [][C24_Fault]_vars

\* the fault needs a fresh frame and the allocator has none
C25_NoFrame(s, a, vpn, acc) ==
    /\ FreeFrames(Now, {}) = {}
    /\ \/ a.vma_type \in {"Stack", "Heap"}
       \/ a.vma_type = "Data" /\ ~a.file
       \/ a.vma_type = "Mmap" /\ a.file /\ "MAP_PRIVATE" \in a.mmap_flags /\ acc = "WRITE"
\* the fault needs a page of the file at or past its end
C25_NoPage(a, vpn) ==
    a.vma_type = "Mmap" /\ a.file /\ C22_Offset(a, vpn) >= FileSize
C25_Failing(s, va, acc) ==
    /\ ~PteIsValid(PteOf(s, VaFloor(va)))
    /\ \E a \in RmGet(spaces[s].areas, va) :
          /\ CanAccess(acc, a.map_perm)
          /\ (C25_NoFrame(s, a, VaFloor(va), acc) \/ C25_NoPage(a, VaFloor(va)))
C25_Fault ==
    \A s \in SpaceIds, va \in PageStarts, acc \in AccessTypes :
        (C25_Failing(s, va, acc) /\ HandlePageFault(s, va, acc)) =>
            last'.res = "Err" /\ ~panicked' /\ spaces' = spaces
\* C25: a page fault that needs a fresh frame when the allocator has none,
\* or a page of the file that cannot be read, returns Err, does not panic
\* and installs no mapping.
C25_FailureIsErr == [][C25_Fault]_vars

\* ------------------------------------------------------------ page table properties
\* the call before mapped vpn at level: its slot holds a valid leaf entry
C26_ValidLeaf(vpn, level) ==
    /\ ptable.ret.op = "map" /\ ptable.ret.res = "Ok"
    /\ ptable.ret.vpn = vpn /\ ptable.ret.level = level
C26_Map ==
    \A vpn \in PtVpns, ppn \in PtDataFrames, perm \in PtPerms, level \in {"Huge", "Big", "Small"} :
        (C26_ValidLeaf(vpn, level) /\ PageTableMap(vpn, ppn, perm, level)) =>
            ptable'.panicked /\ ptable'.mem = ptable.mem
\* C26: PageTable::map on a slot that holds a valid leaf entry panics and
\* leaves every table as it was.
C26_NoDoubleMap == [][C26_Map]_vars

C27_First(level) ==
    /\ ptable.steps = 1 /\ ptable.ret.op = "map" /\ ptable.ret.res = "Ok"
    /\ ptable.ret.level = level
    /\ ptable.ret.vpn % PageCount(level) = 0
C27_Leaf(f, level, ppn) ==
    /\ f.st = "some"
    /\ PageLevelFrom(f.i) = level
    /\ PteIsValid(ptable.mem[f.frame][f.idx])
    /\ ptable.mem[f.frame][f.idx].ppn = ppn
C27_Page(vpn, ppn, level, i) ==
    /\ C27_Leaf(PageTableFindPte(ptable, vpn + i), level, ppn)
    /\ PageTableTranslateVpn(ptable, vpn + i) = ppn + i
    /\ \A off \in {0, HALF_PAGE} :
          PageTableTranslateVa(ptable, StartAddr(vpn + i) + off) = StartAddr(ppn + i) + off
C27_Tables(level) ==
    /\ Len(ptable.frames) = CHOOSE i \in 0 .. (PG_LEVEL - 1) : PageLevelFrom(i) = level
    /\ \A k \in 1 .. Len(ptable.frames) :
          /\ ptable.frames[k] \notin ptable.free
          /\ Cardinality({j \in PtSlots : ptable.mem[ptable.frames[k]][j] # PteEmpty}) <= 1
C27_Level(level) ==
    C27_First(level) =>
        /\ \A i \in 0 .. (PageCount(level) - 1) :
              C27_Page(ptable.ret.vpn, ptable.ret.ppn, level, i)
        /\ C27_Tables(level)
\* C27: after map(vpn, ppn, perm, level) on an empty page table, vpn a
\* multiple of the level's page count, every page i of the leaf is found
\* by find_pte at that level, translate_vpn gives ppn + i, translate_va
\* keeps the byte offset, and the tables created on the way are zeroed
\* apart from the entry of the walk and are owned by the page table.
C27_MapThenTranslate == \A level \in {"Huge", "Big", "Small"} : C27_Level(level)
C27_SmallOnly == C27_Level("Small")

\* ------------------------------------------------------------ fork properties
C28_Own(p, c, a, v) ==
    /\ PteIsValid(spaces'[c].pt[v])
    /\ spaces'[c].pt[v].ppn # spaces[p].pt[v].ppn
    /\ mem'[spaces'[c].pt[v].ppn] = mem[spaces[p].pt[v].ppn]
    /\ \E ca \in AreasAt(spaces', c, v) :
          /\ v \in DOMAIN ca.frames
          /\ ca.frames[v] = spaces'[c].pt[v].ppn
          /\ GetOwners(After, ca.frames[v]) = 1
    /\ spaces'[p].pt[v] = spaces[p].pt[v]
    /\ a \in spaces'[p].areas
C28_LaOwn(p, c, a, v) ==
    /\ PteIsValid(lavm'.g.spaces[c].pt[v])
    /\ lavm'.g.spaces[c].pt[v].ppn # lavm.g.spaces[p].pt[v].ppn
    /\ lavm'.g.mem[lavm'.g.spaces[c].pt[v].ppn] = lavm.g.mem[lavm.g.spaces[p].pt[v].ppn]
    /\ \E ca \in AreasAt(lavm'.g.spaces, c, v) :
          /\ v \in DOMAIN ca.frames
          /\ ca.frames[v] = lavm'.g.spaces[c].pt[v].ppn
          /\ GetOwners(lavm'.g, ca.frames[v]) = 1
    /\ lavm'.g.spaces[p].pt[v] = lavm.g.spaces[p].pt[v]
    /\ a \in lavm'.g.spaces[p].areas
C28_Riscv ==
    (last'.op = "from_existed" /\ last'.res = "Ok" /\ last' # last) =>
        \A a \in spaces[last'.s].areas :
            a.vma_type = "TrapContext" =>
                \A v \in DOMAIN a.frames :
                    PteIsValid(spaces[last'.s].pt[v]) => C28_Own(last'.s, last'.ret, a, v)
C28_LoongArch ==
    (lavm'.last.op = "from_existed" /\ lavm'.last.res = "Ok" /\ lavm'.last # lavm.last) =>
        \A a \in lavm.g.spaces[lavm'.last.s].areas :
            \A v \in DOMAIN a.frames :
                PteIsValid(lavm.g.spaces[lavm'.last.s].pt[v]) =>
                    C28_LaOwn(lavm'.last.s, lavm'.last.ret, a, v)
\* C28: after from_existed returns Ok, for every area of the parent for
\* which clone_cow fails (the TrapContext on RISC-V, every area on
\* LoongArch) and every VPN it had mapped, the child maps a frame of its
\* own, different from the parent's, holding the bytes of the parent's
\* page, and the parent's PTE and area are unchanged.
C28_ForkDeepCopies == [][C28_Riscv /\ C28_LoongArch]_vars

\* A RISC-V fork gave the child a TrapContext frame of its own with the
\* bytes of the parent's trap page, and a LoongArch fork gave the child a
\* Data frame of its own with the segment bytes of the parent's page.
C28_Witness ==
    /\ last.op = "from_existed" /\ last.res = "Ok"
    /\ \E f \in FreeFrames(Now, {}) : mem[f] = StalePage
    /\ \E pa \in spaces[last.s].areas, ca \in spaces[last.ret].areas :
          /\ pa.vma_type = "TrapContext" /\ ca.vma_type = "TrapContext"
          /\ \E v \in DOMAIN pa.frames :
                /\ v \in DOMAIN ca.frames
                /\ ca.frames[v] # pa.frames[v]
                /\ mem[ca.frames[v]] = mem[pa.frames[v]]
                /\ mem[ca.frames[v]] # StalePage
                /\ PteOf(last.ret, v).ppn = ca.frames[v]
    /\ lavm.last.op = "from_existed" /\ lavm.last.res = "Ok"
    /\ \E pa \in lavm.g.spaces[lavm.last.s].areas, ca \in lavm.g.spaces[lavm.last.ret].areas :
          /\ pa.vma_type = "Data" /\ ca.vma_type = "Data"
          /\ \E v \in DOMAIN pa.frames :
                /\ ca.frames[v] # pa.frames[v]
                /\ lavm.g.mem[ca.frames[v]] = ElfPage
                /\ lavm.g.spaces[lavm.last.ret].pt[v].ppn = ca.frames[v]

\* ------------------------------------------------------------ ELF loader properties
C29_MaxEnd == CHOOSE e \in {loader.phdrs[i][2] : i \in 1 .. Len(loader.phdrs)} :
                  \A i \in 1 .. Len(loader.phdrs) : loader.phdrs[i][2] <= e
\* C29: when from_elf or from_elf_file has returned, the heap base is the
\* page-rounded highest end address of the PT_LOAD headers, whatever their
\* order in the table.
C29_HeapAboveSegments ==
    (loader.op \in {"from_elf", "from_elf_file"} /\ loader.res = "Ok") =>
        loader.heap_bottom_va = StartAddr(VaCeil(C29_MaxEnd))

\* ------------------------------------------------------------ kernel VM space properties
C30_Range(a, b) == <<StartAddr(a), StartAddr(b)>>
C30_Some(a, b, frames, perm) ==
    /\ b - a = Len(frames)
    /\ KERNEL_VM_BOTTOM <= StartAddr(a) /\ StartAddr(b) <= KERNEL_VM_TOP
    /\ \A x \in kvm.areas : ~Overlap(x.k, C30_Range(a, b))
    /\ kvm.areas \subseteq kvm'.areas
    /\ \E x \in kvm'.areas :
          x.k = C30_Range(a, b) /\ x.vma_type = "VirtMemory" /\ x.map_perm = perm
    /\ \A i \in 1 .. Len(frames) : TranslateVpn(kvm'.pt, a + i - 1) = frames[i]
C30_NoRun(n) ==
    \A a \in VPNS :
        (KERNEL_VM_BOTTOM <= StartAddr(a) /\ StartAddr(a + n) <= KERNEL_VM_TOP) =>
            \E x \in kvm.areas : Overlap(x.k, C30_Range(a, a + n))
C30_None(frames) ==
    /\ kvm'.areas = kvm.areas /\ kvm'.pt = kvm.pt
    /\ C30_NoRun(Len(frames))
C30_Map ==
    (kvm'.steps # kvm.steps /\ kvm'.ret.op = "map_vm_area") =>
        /\ kvm'.ret.res \in {"Some", "None"}
        /\ kvm'.ret.res = "Some" =>
              C30_Some(kvm'.ret.range[1], kvm'.ret.range[2], kvm'.ret.frames, kvm'.ret.perm)
        /\ kvm'.ret.res = "None" => C30_None(kvm'.ret.frames)
\* C30: map_vm_area(frames, perm) returns a VPN range of frames.len() pages
\* inside [KERNEL_VM_BOTTOM, KERNEL_VM_TOP) that no kernel area overlapped,
\* records a VirtMemory area on it and makes its i-th VPN translate to the
\* i-th frame; it returns None, changing nothing, when the window has no
\* free run of that length.
C30_MapVmArea == [][C30_Map]_vars

\* map_vm_area placed two different frames behind an area it had placed
\* before, and returned None on a later call
C30_Witness ==
    /\ kvm.ret.op = "map_vm_area" /\ kvm.ret.res = "Some"
    /\ Len(kvm.ret.frames) = 2 /\ kvm.ret.frames[1] # kvm.ret.frames[2]
    /\ kvm.ret.range[1] > VaFloor(KERNEL_VM_BOTTOM)
    /\ TranslateVpn(kvm.pt, kvm.ret.range[1] + 1) = kvm.ret.frames[2]
    /\ Cardinality({x \in kvm.areas : x.vma_type = "VirtMemory"}) >= 2

\* ------------------------------------------------------------ page range iterator properties
C31_End(item) == item[1] + PageCount(item[2])
C31_Fits(vpn, level) ==
    vpn % PageCount(level) = 0 /\ vpn + PageCount(level) <= iter.given[2]
C31_Run(i) ==
    /\ iter.out[i][1] = IF i = 1 THEN iter.given[1] ELSE C31_End(iter.out[i - 1])
    /\ C31_Fits(iter.out[i][1], iter.out[i][2])
    /\ \A L \in {"Huge", "Big", "Small"} :
          C31_Fits(iter.out[i][1], L) => PageCount(L) <= PageCount(iter.out[i][2])
C31_Covered ==
    IF iter.given[1] >= iter.given[2] THEN iter.out = <<>>
    ELSE iter.out # <<>> /\ C31_End(iter.out[Len(iter.out)]) = iter.given[2]
\* C31: the runs VpnPageRangeIter yields over [start, end) are consecutive
\* from start, each aligned to its level's page count and inside the range,
\* each of the largest level that is aligned and fits; when the iterator
\* ends they cover exactly [start, end).
C31_GreedyDecomposition ==
    /\ \A i \in 1 .. Len(iter.out) : C31_Run(i)
    /\ iter.done => C31_Covered

\* an iterator that ended after yielding runs of all three levels from an
\* unaligned start
C31_Witness ==
    /\ iter.done
    /\ iter.given[1] % PageCount("Big") # 0
    /\ {iter.out[i][2] : i \in 1 .. Len(iter.out)} = {"Huge", "Big", "Small"}

\* ------------------------------------------------------------ split_off properties
C32_Half(half, lo, hi, keys) ==
    /\ half.range_va = <<StartAddr(lo), StartAddr(hi)>>
    /\ DOMAIN half.frames = keys
    /\ \A v \in keys : half.frames[v] = split.area.frames[v] /\ lo <= v /\ v < hi
C32_File ==
    /\ split.right.offset = split.left.offset + (split.p - VaFloor(split.area.range_va[1])) * PAGE_SIZE
    /\ split.left.offset = split.area.offset
    /\ split.left.len + split.right.len = split.area.len
\* C32: split_off(p) leaves [start, p) and the frames below p in the area
\* and gives [p, end) and the frames from p on to the detached area; for a
\* file-backed area the detached offset is the left offset plus the pages
\* before p, and the two lengths add up to the original length.
C32_SplitPartitions ==
    split.done =>
        /\ C32_Half(split.left, VaFloor(split.area.range_va[1]), split.p,
                    {v \in DOMAIN split.area.frames : v < split.p})
        /\ C32_Half(split.right, split.p, VaCeil(split.area.range_va[2]),
                    {v \in DOMAIN split.area.frames : v >= split.p})
        /\ split.area.file => C32_File

\* a file-backed area with frames on both sides of p was split inside
\* its file part
C32_Witness ==
    /\ split.done /\ split.area.file
    /\ split.left.frames # EmptyFrames /\ split.right.frames # EmptyFrames
    /\ split.left.len > 0 /\ split.right.len > 0

\* ------------------------------------------------------------ cached read properties
C33_SameRead ==
    /\ cread.ret.n = DirectCount(cread.ret.offset, cread.ret.len)
    /\ cread.ret.bytes = DirectReadAt(cread.ret.offset, cread.ret.len)
C33_PagesHoldFile ==
    \A o \in CreadOffsets : cread.cache[o] # None => cread.cache[o] = o
\* C33: cache_read_at(offset, buf) returns the byte count and the bytes of
\* read_at(offset, buf), and every page in the cache under key o holds
\* the file bytes [o, o + PAGE_SIZE).
C33_CacheReadIsRead == C33_SameRead /\ C33_PagesHoldFile
\* the page-aligned, single-page part: reads that start at a page
\* boundary and fit in one page
C33_AlignedOnePage ==
    (cread.steps = 1 /\ cread.ret.offset = 0 /\ cread.ret.len <= PAGE_SIZE) => C33_SameRead

\* ------------------------------------------------------------ failed page faults
C34_Failed == ops' # ops /\ last'.op = "handle_page_fault" /\ last'.res = "Err"
C34_Fault ==
    C34_Failed =>
        /\ spaces' = spaces
        /\ FreeFrames(Machine(spaces', cache', mem'), {}) = FreeFrames(Now, {})
\* C34: when handle_page_fault returns Err, every space's page table and
\* areas (frames, permissions) are as before the call and the frame
\* allocator has the free frames it had before.
C34_ErrLeavesSpace == [][C34_Fault]_vars

\* a write fault on a shared copy-on-write page failed for want of a frame
C34_Witness ==
    /\ last.op = "handle_page_fault" /\ last.res = "Err" /\ last.acc = "WRITE"
    /\ FreeFrames(Now, {}) = {}
    /\ \E a \in RmGet(spaces[last.s].areas, last.va) :
          /\ VaFloor(last.va) \in DOMAIN a.frames
          /\ GetOwners(Now, a.frames[VaFloor(last.va)]) > 1
          /\ "C" \in PteMapPerm(PteOf(last.s, VaFloor(last.va)))
          /\ PteIsValid(PteOf(last.s, VaFloor(last.va)))

\* ------------------------------------------------------------ page fault progress
\* the MMU lets the access through
MmuAllows(pte, acc) ==
    /\ PteIsValid(pte) /\ "U" \in PteMapPerm(pte)
    /\ IF acc = "WRITE" THEN "W" \in PteMapPerm(pte) ELSE "R" \in PteMapPerm(pte)
C35_Allows(g, s, va, acc) == MmuAllows(g.spaces[s].pt[VaFloor(va)], acc)
\* the access at va faults, in an area of the four types whose permission
\* allows it, with frames to spare
C35_Faults(s, va, acc) ==
    /\ ~panicked /\ Live(s)
    /\ ~C35_Allows(Now, s, va, acc)
    /\ Cardinality(FreeFrames(Now, {})) >= 2
    /\ \E a \in RmGet(spaces[s].areas, va) :
          a.vma_type \in {"Data", "Heap", "Stack", "Mmap"} /\ CanAccess(acc, a.map_perm)
C35_Second(r, s, va, acc) == r.res = "Ok" /\ C35_Allows(r.g, s, va, acc)
C35_First(r, s, va, acc) ==
    /\ r.res = "Ok"
    /\ C35_Allows(r.g, s, va, acc)
       \/ C35_Second(SpaceHandlePageFault(r.g, s, va, acc), s, va, acc)
\* C35: a fault in a Data, Heap, Stack or Mmap area whose permission
\* allows the access, with free frames, returns Ok, and after at most two
\* invocations for the access the VPN has a valid leaf that permits it.
C35_FaultMakesProgress ==
    \A s \in SpaceIds, va \in PageStarts, acc \in AccessTypes :
        C35_Faults(s, va, acc) => C35_First(SpaceHandlePageFault(Now, s, va, acc), s, va, acc)
\* the same for faults on pages that lie inside the mapped file
C35_InsideFile(s, va) == \A a \in RmGet(spaces[s].areas, va) : ~C25_NoPage(a, VaFloor(va))
C35_ProgressInsideFile ==
    \A s \in SpaceIds, va \in PageStarts, acc \in AccessTypes :
        (C35_Faults(s, va, acc) /\ C35_InsideFile(s, va)) =>
            C35_First(SpaceHandlePageFault(Now, s, va, acc), s, va, acc)

\* ------------------------------------------------------------ shared frames
C36_Private(a) == a.vma_type # "Shm" /\ "MAP_SHARED" \notin a.mmap_flags
C36_Writable(s, v) == PteIsValid(PteOf(s, v)) /\ "W" \in PteMapPerm(PteOf(s, v))
\* C36: a frame with more than one owner (another space or the page
\* cache) is not mapped with W by an area that is not a shared mapping.
C36_SharedFrameNotWritable ==
    \A s \in LiveSpaces : \A a \in spaces[s].areas : \A v \in DOMAIN a.frames :
        (C36_Private(a) /\ GetOwners(Now, a.frames[v]) > 1) => ~C36_Writable(s, v)

\* ------------------------------------------------------------ frames in use
C37_InUse ==
    UNION {AreaFrames(a) : a \in UNION {spaces[s].areas : s \in SpaceIds}}
    \cup UNION {spaces[s].pt_frames : s \in SpaceIds}
C37_MappedIn(s) == {PteOf(s, v).ppn : v \in {x \in VPNS : PteIsValid(PteOf(s, x))}}
C37_Mapped == UNION {C37_MappedIn(s) : s \in LiveSpaces}
C38_InBlocks(sl, c, a) == BlockOf(a) \notin sl.pool /\ BlockOf(a) \in SeqSet(BlocksIn(sl, c))
C38_Shrunk == slab'.ret.op = "shrink" /\ slab'.ret.res = "Ok"
C38_AllocNext ==
    slab.ret.op = "shrink" /\ slab.ret.res = "Ok" /\ slab'.ret.op = "alloc" /\ slab'.ret.res = "Some"
C38_Step ==
    slab'.steps # slab.steps =>
        /\ C38_Shrunk =>
              \A a \in SeqSet(FreeIn(slab', slab'.ret.c)) : C38_InBlocks(slab', slab'.ret.c, a)
        /\ C38_AllocNext => C38_InBlocks(slab', slab'.ret.c, slab'.ret.a)
\* C38: after shrink no node on the cache's freelist lies in a frame that
\* went back to the frame allocator, every freelist node lies in a block
\* of the cache's block list, and the alloc that follows returns a node of
\* a block the cache holds.
C38_FreelistAfterShrink == [][C38_Step]_vars

\* an alloc right after a shrink that released a block took a node the
\* freelist had kept
C38_Witness ==
    /\ slab.ret.op = "alloc" /\ slab.ret.res = "Some"
    /\ slab.allocs[slab.ret.c] = None
    /\ \E p \in slab.pool : slab.block[p].belong = CacheAddr(slab.ret.c)
    /\ Len(BlocksIn(slab, slab.ret.c)) = 1
    /\ slab.block[BlockOf(slab.ret.a)].size >= 2

\* ------------------------------------------------------------ set_flags
C39_Changed(s, a, v) ==
    /\ spaces'[s].pt[v].ppn = spaces[s].pt[v].ppn
    /\ spaces'[s].pt[v].flags = PTEFlagsFrom(ClonePerm(a.map_perm)) \cup {"V"}
C39_Fork ==
    (last'.op = "from_existed" /\ last'.res = "Ok") =>
        \A a \in spaces[last'.s].areas :
            (a.vma_type # "TrapContext" /\ "W" \in a.map_perm) =>
                \A v \in DOMAIN a.frames :
                    PteIsValid(spaces[last'.s].pt[v]) => C39_Changed(last'.s, a, v)
\* C39: set_flags changes only the flag bits: where clone_cow has called
\* it on the leaves of a writable area, each leaf has the PPN it had and
\* exactly the flags it was given.
C39_SetFlagsKeepsPpn == [][C39_Fork]_vars
====
